---- MODULE Spec2Model ----
(***************************************************************************)
(* The tool-calling orchestration loop of the chat client                  *)
(* (src/client/chatgpt_mcp_integration.py, class ChatGPTMCPIntegration)    *)
(* and the REST session entry that wraps one integration                   *)
(* (src/client/main.py).                                                   *)
(*                                                                         *)
(* One integration object is modelled.  A call of chat() or of             *)
(* chat_streaming() is split at its suspension points (the awaits and the  *)
(* yield); calls on the integration are serialized: a new call starts only *)
(* when pc = "idle".  The model provider, the tool provider and the caller *)
(* are the environment: their answers are chosen from small sets.          *)
(***************************************************************************)
EXTENDS Integers, Sequences, FiniteSets, TLC

VARIABLES
    history,             \* self.conversation_history
    pc,                  \* where the call in flight is suspended
    user_message,        \* argument of the call in flight (or of the last call)
    system_prompt,       \* argument of the call in flight
    max_iterations,      \* argument of chat()
    iteration,           \* local of chat()
    tool_calls,          \* assistant_message.tool_calls of the last response
    tc_i,                \* index of the for loop over tool_calls
    collected_messages,  \* local of chat_streaming()
    registered,          \* the integration is an entry of main.sessions
    message_count,       \* sessions[session_id]["message_count"]
    returned,            \* what the last get_conversation_history() returned
    outcome,             \* how the last finished call ended
    lastOp,              \* the last operation started on the integration
    hist0,               \* observation: the history when the last call started
    nreq,                \* observation: model requests issued by the last call
    ninv,                \* observation: tool invocations issued by the last call
    yielded,             \* observation: the fragments the consumer received
    toolFailed,          \* observation: the tool invocation that ended in
                         \*   the last step of chat() failed
    attempts,            \* observation: what the provider did with each
                         \*   call_tool of that invocation
    tools,               \* self.tools
    loads,               \* observation: the times _load_tools() ran
    sentTools,           \* observation: the tools arguments of the model
                         \*   requests issued so far
    turns,               \* observation: turns appended so far, and copies
                         \*   and edits of the caller
    runLen0,             \* observation: history length when the current run
                         \*   of plain-answer chat() calls began
    runN,                \* observation: plain-answer chat() calls in that run
    runSys,              \* observation: system turns appended in that run
    client,              \* self.client: the key and the endpoint it talks to
    model,               \* self.model
    textless,            \* observation: the stream being read, or the
                         \*   one drained last, delivered chunks, none of
                         \*   them with text
    sessions,            \* main.sessions, the table of the REST sessions
    integrations,        \* the integrations get_or_create_session created
    requests,            \* the REST request in flight for each session id
    responses,           \* the last REST response for each session id
    succeeded,           \* observation: the chat requests of each session
                         \*   id answered with 200 since the session was
                         \*   created or last reset
    accepted,            \* observation: the REST requests accepted so far,
                         \* plus the tool calls the model asked for in them
    calls,               \* the chat requests in flight that no caller
                         \*   serializes, one for each client
    statuses,            \* the status of the response to the last request
                         \*   of each of those clients, 0 until it is sent
    query,               \* argument of the execute_select_query in flight
    query_params,        \* local of execute_select_query
    tool_pc,             \* where execute_select_query is
    connection,          \* db_conn.connection, as the database sees it
    raising,             \* the exception that is leaving the with block
    tool_outcome,        \* what the last execute_select_query returned
    opened,              \* observation: connections the call opened
    closed,              \* observation: connections the call closed
    sent,                \* observation: what the call sent to the database
                         \*   for execution
    max_retries,         \* argument of wait_for_mysql
    retry_interval,      \* argument of wait_for_mysql
    attempt,             \* loop variable of wait_for_mysql
    wait_pc,             \* where wait_for_mysql is
    wait_outcome,        \* how wait_for_mysql ended
    slept,               \* observation: seconds wait_for_mysql has slept
    unclosed             \* observation: connections of failed attempts that
                         \*   were opened and not closed

\* the state of the one integration of Spec
loopVars == <<history, pc, user_message, system_prompt, max_iterations,
              iteration, tool_calls, tc_i, collected_messages, registered,
              message_count, returned, outcome, lastOp, hist0, nreq, ninv,
              yielded, toolFailed, attempts, tools, loads, sentTools, turns,
              runLen0, runN, runSys, client, model, textless>>

\* the state of the session table of SessionsSpec
tableVars == <<sessions, integrations, requests, responses, succeeded,
               accepted>>

\* the chat requests of RaceSpec
raceVars == <<calls, statuses>>

\* the state of the query tool of ServerSpec
serverVars == <<query, query_params, tool_pc, connection, raising,
                tool_outcome, opened, closed, sent>>

\* the state of wait_for_mysql of WaitSpec
waitVars == <<max_retries, retry_interval, attempt, wait_pc, wait_outcome,
              slept, unclosed>>

\* what the operations on the one integration of Spec leave alone
outsideLoop == <<tableVars, raceVars, serverVars, waitVars>>
\* what the serialized REST handlers leave alone
outsideTable == <<loopVars, raceVars, serverVars, waitVars>>
\* what the chat requests of RaceSpec leave alone
outsideRace == <<loopVars, serverVars, waitVars>>
\* what the query tool leaves alone
outsideServer == <<loopVars, tableVars, raceVars, waitVars>>
\* what wait_for_mysql leaves alone
outsideWait == <<loopVars, tableVars, raceVars, serverVars>>

vars == <<loopVars, tableVars, raceVars, serverVars, waitVars>>

----------------------------------------------------------------------------
(* Bounds of the model. *)

\* turns appended to the history in one behaviour, the copies of the
\* history a caller takes and its edits of them counted too: every operation
\* and every answer of the model has to fit (a model request can always fail)
MaxTurns == 5
\* the largest max_iterations a direct caller passes
MaxIter == 2
\* fragments in one streamed response
MaxChunks == 2
\* the largest max_retries a caller of wait_for_mysql passes
MaxRetries == 5
\* REST requests accepted in one behaviour of the session table, plus the
\* responses with a tool call the model gave to their chats
MaxRequests == 3

(* Program constants. *)

\* max_iterations: int = 10
DefaultMaxIterations == 10

----------------------------------------------------------------------------
(* Values. *)

\* Python's None where a text is expected
None == "<None>"

BudgetMessage == "Maximum iterations reached. Please try again with a simpler request."

UserMessages == {"u"}
SystemPrompts == {None, "sys"}
DefaultSystemPrompt == "default_sys"

\* the texts a model answers with; None and "" are both falsy
AssistantContents == {None, "a"}

ToolNames == {"execute_select_query"}
\* tool-call arguments as the model sends them: a JSON object, a malformed text
GoodArguments == "{}"
BadArguments == "{"
ArgumentTexts == {GoodArguments, BadArguments}

\* the id the model gives the i-th tool call of a response
CallId(i) == <<"call", i>>

\* what the tool provider does with one call_tool
ProviderOutcomes == {"ok", "error", "type_error"}
\* the value call_tool returns, and str() of it
ProviderValue == [content |-> "rows"]
Str(v) == "CallToolResult(" \o v.content \o ")"
ProviderResult == Str(ProviderValue)
ProviderError == "boom"

\* the content of a streamed chunk (delta.content): absent (as in a chunk
\* that carries a tool-call delta) or empty, or the j-th fragment of the
\* response
RECURSIVE Fragment(_)
Fragment(j) == IF j = 1 THEN "f" ELSE Fragment(j - 1) \o "g"
ChunkContents(j) == {None, "", Fragment(j)}

\* what list_available_tools() returns: the tools the provider advertises
McpTool(name) == [name |-> name, description |-> "d", input_schema |-> "s"]
ProviderToolLists == {<<>>, <<McpTool("execute_select_query")>>}

----------------------------------------------------------------------------
(* Pure helpers. *)

\* Python truthiness of an optional text
Truthy(s) == s # None /\ s # ""

\* json.loads on the argument texts of the model
JsonLoads(s) ==
    IF s = GoodArguments
    THEN [ok |-> TRUE, value |-> "mapping"]
    ELSE [ok |-> FALSE, value |-> None]

SystemTurn(text) == [role |-> "system", content |-> text]
UserTurn(text) == [role |-> "user", content |-> text]

AssistantTurn_emptyToolCalls(content, tcs) ==
    [role |-> "assistant", content |-> content, tool_calls |-> tcs]

\* message_dict of chat()
AssistantTurn(content, tcs) ==
    IF tcs # <<>>
    THEN [role |-> "assistant", content |-> content, tool_calls |-> tcs]
    ELSE [role |-> "assistant", content |-> content]

ToolTurn_nameAsId(tc, result) ==
    [role |-> "tool", tool_call_id |-> tc.function.name, content |-> result]

\* the tool turn chat() appends for one tool call
ToolTurn(tc, result) ==
    [role |-> "tool", tool_call_id |-> tc.id, content |-> result]

\* one entry of message_dict["tool_calls"]
ToolCall(id, name, arguments) ==
    [id |-> id, type |-> "function",
     function |-> [name |-> name, arguments |-> arguments]]

StartTurns_alwaysSystem(h, sp, um) ==
    IF Truthy(sp)
    THEN <<SystemTurn(sp), UserTurn(um)>>
    ELSE <<UserTurn(um)>>

\* the turns chat() and chat_streaming() append before the first request
StartTurns(h, sp, um) ==
    IF Truthy(sp) /\ h = <<>>
    THEN <<SystemTurn(sp), UserTurn(um)>>
    ELSE <<UserTurn(um)>>

RECURSIVE FullResponse_reversed(_)
FullResponse_reversed(cm) ==
    IF cm = <<>> THEN "" ELSE FullResponse_reversed(Tail(cm)) \o cm[1]

\* "".join(collected_messages)
RECURSIVE FullResponse(_)
FullResponse(cm) ==
    IF cm = <<>> THEN "" ELSE cm[1] \o FullResponse(Tail(cm))

\* the outcome of a call that returns v and raises nothing
Value(v) == [raises |-> FALSE, value |-> v]

ExecuteToolCall_swallowsError(name, first, retry) ==
    Value(ProviderResult)

ExecuteToolCall_noRetry(name, first, retry) ==
    IF first = "ok" THEN Value(ProviderResult)
    ELSE Value("Error calling tool " \o name \o ": " \o ProviderError)

\* _execute_tool_call, for the provider's behaviour on the first call
\* (arguments as one mapping) and on the retry (arguments unpacked)
ExecuteToolCall(name, first, retry) ==
    IF first = "ok" THEN Value(ProviderResult)
    ELSE IF first = "type_error"
         THEN IF retry = "ok" THEN Value(ProviderResult)
              ELSE Value("Error calling tool " \o name \o ": " \o ProviderError)
         ELSE Value("Error calling tool " \o name \o ": " \o ProviderError)

\* the try/except of chat() around _execute_tool_call
ToolResult(r) ==
    IF r.raises THEN Value("Error executing tool: " \o r.value) ELSE r

\* the provider failed the invocation
ProviderFailed(first, retry) ==
    first = "error" \/ (first = "type_error" /\ retry # "ok")

\* the call_tool calls _execute_tool_call makes: the first with the
\* arguments as one mapping, the second, after a TypeError, with them unpacked
Attempts(first, retry) ==
    IF first = "type_error" THEN <<first, retry>> ELSE <<first>>

\* the tools _load_tools() builds from the provider's list
LoadTools(mcp_tools) ==
    [i \in DOMAIN mcp_tools |->
        [type |-> "function",
         function |-> [name |-> mcp_tools[i].name,
                       description |-> mcp_tools[i].description,
                       parameters |-> mcp_tools[i].input_schema]]]

\* the tools argument of a model request: self.tools if self.tools else None
RequestTools(t) == [given |-> t # <<>>, tools |-> t]

----------------------------------------------------------------------------
(* The responses of the model. *)

\* the tool-call lists of a response: 1..maxk calls, ids by position
ToolCallLists(maxk) ==
    UNION {
        { [i \in 1..k |-> ToolCall(CallId(i), n, a[i])] :
            a \in [1..k -> ArgumentTexts] }
        : k \in 1..maxk, n \in ToolNames }

----------------------------------------------------------------------------
(* The REST requests. *)

SessionIds == {"A", "B"}
\* no request is in flight
NoRequest == [op |-> "none", pc |-> "idle", integration |-> 0]
\* the id is no key of sessions
Absent == [integration |-> 0, message_count |-> 0]
\* no response was sent yet
NoResponse == [op |-> "none", status |-> 0]
(* str(e) of the exceptions that reach the except clause of the chat        *)
(* endpoint, as sequences of characters.                                   *)

\* a provider failure that names a status and, after it, a rate limit
AuthThenRateMessage ==
    <<"4", "0", "1", " ", "r", "a", "t", "e", "_", "l", "i", "m", "i", "t">>
\* the provider's error code of a rejected key, capitalised
InvalidKeyMessage ==
    <<"I", "n", "v", "a", "l", "i", "d", "_", "A", "p", "i", "_", "K", "e",
      "y">>
\* a provider failure that names the status 429
TooManyMessage ==
    <<"E", "r", "r", "o", "r", " ", "c", "o", "d", "e", ":", " ", "4", "2",
      "9">>
\* the provider's error code of a rate limit, in capitals
RateLimitMessage ==
    <<"R", "A", "T", "E", "_", "L", "I", "M", "I", "T">>
\* str(e) of a failure that names neither
ProviderErrorMessage ==
    <<"b", "o", "o", "m">>
ErrorMessages ==
    {AuthThenRateMessage, InvalidKeyMessage, TooManyMessage, RateLimitMessage,
     ProviderErrorMessage}
\* str(e) of the json.JSONDecodeError of json.loads
DecodeMessage ==
    <<"E", "x", "p", "e", "c", "t", "i", "n", "g", " ", "p", "r", "o", "p",
      "e", "r", "t", "y", " ", "n", "a", "m", "e", " ", "e", "n", "c", "l",
      "o", "s", "e", "d", " ", "i", "n", " ", "d", "o", "u", "b", "l", "e",
      " ", "q", "u", "o", "t", "e", "s">>

\* the words the chat endpoint looks for in the lowered message
InvalidApiKey ==
    <<"i", "n", "v", "a", "l", "i", "d", "_", "a", "p", "i", "_", "k", "e", "y">>
RateLimit == <<"r", "a", "t", "e", "_", "l", "i", "m", "i", "t">>

\* str.lower() on one character of the alphabet of the error messages
LowerChar(c) ==
    CASE c = "A" -> "a"
      [] c = "E" -> "e"
      [] c = "I" -> "i"
      [] c = "K" -> "k"
      [] c = "L" -> "l"
      [] c = "M" -> "m"
      [] c = "R" -> "r"
      [] c = "T" -> "t"
      [] OTHER -> c

\* str.lower()
Lower(text) == [i \in 1..Len(text) |-> LowerChar(text[i])]

\* sub in text
Contains(text, sub) ==
    \E i \in 0..(Len(text) - Len(sub)) :
        SubSeq(text, i + 1, i + Len(sub)) = sub
\* the clients that send chat requests without waiting for each other
Clients == {1, 2}
\* the client has no chat request in flight
NoCall == [pc |-> "idle", session |-> None, integration |-> 0,
           tool_calls |-> <<>>, start |-> 0, added |-> 0]

----------------------------------------------------------------------------
(* The query tool of the server: its inputs, as sequences of characters. *)

Whitespace == {" ", "\n"}

\* str.upper() on one character of the alphabet of the queries
UpperChar(c) ==
    CASE c = "s" -> "S"
      [] c = "e" -> "E"
      [] c = "l" -> "L"
      [] c = "c" -> "C"
      [] c = "t" -> "T"
      [] OTHER -> c

\* str.upper()
Upper(q) == [i \in 1..Len(q) |-> UpperChar(q[i])]

Strip_everywhere(q) == SelectSeq(q, LAMBDA c : c \notin Whitespace)

\* str.strip(): leading and trailing whitespace is removed
RECURSIVE Strip(_)
Strip(q) ==
    IF q = <<>> THEN q
    ELSE IF q[1] \in Whitespace THEN Strip(Tail(q))
    ELSE IF q[Len(q)] \in Whitespace THEN Strip(SubSeq(q, 1, Len(q) - 1))
    ELSE q

\* str.startswith(prefix)
StartsWith(q, prefix) ==
    Len(q) >= Len(prefix) /\ SubSeq(q, 1, Len(prefix)) = prefix

SELECT == <<"S", "E", "L", "E", "C", "T">>

\* query.strip().upper().startswith('SELECT')
IsSelect(q) == StartsWith(Upper(Strip(q)), SELECT)

\* the queries a model sends
Queries ==
    {<<"S", "E", "L", "E", "C", "T", " ", "1">>,
     <<" ", "s", "e", "l", "e", "c", "t", " ", "1", "\n">>,
     <<"\n", "S", "e", "L", "e", "C", "t">>,
     <<"S", "E", "L", "E", "C", "T", "E", "D">>,
     <<"S", "E", "L", "E", "C">>,
     <<"(", "S", "E", "L", "E", "C", "T", " ", "1", ")">>,
     <<"D", "R", "O", "P">>,
     <<"S", " ", "E", "L", "E", "C", "T">>,
     <<" ">>,
     <<>>}

\* params: None, the empty list, a list of one parameter
NoParams == [given |-> FALSE, values |-> <<>>]
Params(values) == [given |-> TRUE, values |-> values]
ParamLists == {NoParams, Params(<<>>), Params(<<1>>)}

\* the text of MYSQL_PORT in the environment
PortTexts == {"3306", "tcp"}

\* what mysql.connector.connect does: a live connection, a connection that
\* is not connected, an Error of the connector, another exception
ConnectOutcomes == {"connected", "not_connected", "error", "other"}

\* what running the query on the cursor does
ExecuteOutcomes == {"rows", "error", "other"}

\* no exception is pending; the exceptions of the query tool, by class
NoException == "none"

\* json.dumps of a response with the title and the type of its data
JsonDumps(title, type) == <<"json", [title |-> title, type |-> type]>>

----------------------------------------------------------------------------
(* wait_for_mysql of the database initialisation. *)

\* retry_interval=2, and a shorter one
RetryIntervals == {1, 2}

\* where an attempt fails with a connector error: connecting, or running
\* SELECT 1 on the connection it opened
FailurePoints == {"connect", "query"}

\* sys.exit(status)
SysExit(status) == [kind |-> "exited", value |-> ToString(status)]

----------------------------------------------------------------------------
(* The construction of an integration. *)

\* the prefix of the keys of the OpenRouter gateway
OpenRouterPrefix == <<"s", "k", "-", "o", "r", "-", "v", "1", "-">>

\* keys, as sequences of characters: of the gateway, of the direct endpoint
OpenRouterKey == OpenRouterPrefix \o <<"k">>
DirectKey == <<"s", "k", "-", "p", "r", "o", "j", "-", "k">>
ApiKeys == {OpenRouterKey, DirectKey}

\* model: str = "gpt-4o"
DefaultModel == "gpt-4o"
Models == {DefaultModel}

OpenRouterUrl == "https://openrouter.ai/api/v1"
\* the base_url of AsyncOpenAI(api_key=api_key)
DirectUrl == "https://api.openai.com/v1"

NewClient_alwaysDirect(api_key) == [api_key |-> api_key, base_url |-> DirectUrl]

\* the AsyncOpenAI client __init__ builds for the key
NewClient(api_key) ==
    IF api_key # <<>> /\ StartsWith(api_key, OpenRouterPrefix)
    THEN [api_key |-> api_key, base_url |-> OpenRouterUrl]
    ELSE [api_key |-> api_key, base_url |-> DirectUrl]

\* __init__: the client and the model name
NewIntegrationFor(api_key, m) == client = NewClient(api_key) /\ model = m

----------------------------------------------------------------------------
(* How a call ends. *)

NoOutcome == [kind |-> "none", value |-> None]
Returned(text) == [kind |-> "returned", value |-> text]
Raised(cause) == [kind |-> "raised", value |-> cause]
Drained == [kind |-> "drained", value |-> None]
Abandoned == [kind |-> "abandoned", value |-> None]

\* every field but the client and the model name
Constructed ==
    /\ history = <<>>
    /\ pc = "idle"
    /\ user_message = None
    /\ system_prompt = None
    /\ max_iterations = 0
    /\ iteration = 0
    /\ tool_calls = <<>>
    /\ tc_i = 0
    /\ collected_messages = <<>>
    /\ registered = FALSE
    /\ message_count = 0
    /\ returned = <<>>
    /\ outcome = NoOutcome
    /\ lastOp = "none"
    /\ hist0 = <<>>
    /\ nreq = 0
    /\ ninv = 0
    /\ yielded = <<>>
    /\ toolFailed = FALSE
    /\ attempts = <<>>
    /\ tools = <<>>
    /\ loads = 0
    /\ sentTools = {}
    /\ turns = 0
    /\ runLen0 = 0
    /\ runN = 0
    /\ runSys = 0
    /\ sessions = [s \in SessionIds |-> Absent]
    /\ integrations = <<>>
    /\ requests = [s \in SessionIds |-> NoRequest]
    /\ responses = [s \in SessionIds |-> NoResponse]
    /\ succeeded = [s \in SessionIds |-> 0]
    /\ accepted = 0
    /\ calls = [k \in Clients |-> NoCall]
    /\ statuses = [k \in Clients |-> 0]
    /\ query = <<>>
    /\ query_params = NoParams
    /\ tool_pc = "idle"
    /\ connection = "none"
    /\ raising = NoException
    /\ tool_outcome = NoOutcome
    /\ opened = 0
    /\ closed = 0
    /\ sent = <<>>
    /\ textless = FALSE
    /\ max_retries = 0
    /\ retry_interval = 0
    /\ attempt = 0
    /\ wait_pc = "idle"
    /\ wait_outcome = NoOutcome
    /\ slept = 0
    /\ unclosed = 0

\* ChatGPTMCPIntegration(api_key): the key of the deployment, the default
\* model
Init == NewIntegrationFor(DirectKey, DefaultModel) /\ Constructed

\* ChatGPTMCPIntegration(api_key, model) for the keys of either shape
EndpointInit ==
    \E api_key \in ApiKeys, m \in Models :
        NewIntegrationFor(api_key, m) /\ Constructed

----------------------------------------------------------------------------
(* chat(): the control state of the loop, as a record                      *)
(* [pc, iteration, tc_i, nreq, ninv, outcome].                             *)

Control ==
    [pc |-> pc, iteration |-> iteration, tc_i |-> tc_i, nreq |-> nreq,
     ninv |-> ninv, outcome |-> outcome]

EnterToolCall_restarts(c, tcs, i) ==
    IF JsonLoads(tcs[1].function.arguments).ok
    THEN [c EXCEPT !.pc = "tool", !.tc_i = 1, !.ninv = @ + 1]
    ELSE [c EXCEPT !.pc = "idle", !.tc_i = 1, !.outcome = Raised("decode")]

\* the head of the for loop for tool call i: the arguments are decoded (an
\* uncaught failure ends chat()), then the tool is invoked and awaited
EnterToolCall(c, tcs, i) ==
    IF JsonLoads(tcs[i].function.arguments).ok
    THEN [c EXCEPT !.pc = "tool", !.tc_i = i, !.ninv = @ + 1]
    ELSE [c EXCEPT !.pc = "idle", !.tc_i = i, !.outcome = Raised("decode")]

\* the head of the while loop: the next model request, or the budget message
LoopHead_bodyFirst(c, mi) ==
    IF c.iteration < mi \/ c.iteration = 0
    THEN [c EXCEPT !.pc = "model", !.iteration = @ + 1, !.nreq = @ + 1]
    ELSE [c EXCEPT !.pc = "idle", !.outcome = Returned(BudgetMessage)]

LoopHead(c, mi) ==
    IF c.iteration < mi
    THEN [c EXCEPT !.pc = "model", !.iteration = @ + 1, !.nreq = @ + 1]
    ELSE [c EXCEPT !.pc = "idle", !.outcome = Returned(BudgetMessage)]

\* The step of chat() that leaves the control state c and the history h.
\* plain: the call ends with the model's answer to its first request.
\* The REST endpoint counts a call that returned (main.py, chat).
Step(c, h, plain) ==
    /\ history' = h
    /\ pc' = c.pc
    /\ iteration' = c.iteration
    /\ tc_i' = c.tc_i
    /\ nreq' = c.nreq
    /\ ninv' = c.ninv
    /\ outcome' = c.outcome
    /\ turns' = turns + (Len(h) - Len(history))
    /\ message_count' =
         IF registered /\ c.pc = "idle" /\ c.outcome.kind = "returned"
         THEN message_count + 1 ELSE message_count
    /\ IF c.pc # "idle" THEN UNCHANGED <<runLen0, runN>>
       ELSE IF plain THEN runLen0' = runLen0 /\ runN' = runN + 1
       ELSE runLen0' = Len(h) /\ runN' = 0
    /\ sentTools' = IF c.nreq > nreq
                    THEN sentTools \cup {RequestTools(tools)}
                    ELSE sentTools
    /\ UNCHANGED <<tools, loads>>
    /\ UNCHANGED <<client, model>>
    /\ UNCHANGED outsideLoop

ChatStart(um, sp, mi) ==
    /\ pc = "idle"
    /\ loads > 0
    /\ IF registered
       THEN sp = None /\ mi = DefaultMaxIterations
       ELSE mi \in -1..MaxIter
    /\ turns + Len(StartTurns(history, sp, um)) <= MaxTurns
    /\ LET h == history \o StartTurns(history, sp, um)
           c0 == [pc |-> "idle", iteration |-> 0, tc_i |-> 0, nreq |-> 0,
                  ninv |-> 0, outcome |-> NoOutcome]
       IN /\ Step(LoopHead(c0, mi), h, FALSE)
          /\ runSys' = IF LoopHead(c0, mi).pc = "idle" THEN 0
                       ELSE IF Truthy(sp) /\ history = <<>> THEN 1
                       ELSE runSys
    /\ user_message' = um
    /\ system_prompt' = sp
    /\ max_iterations' = mi
    /\ tool_calls' = <<>>
    /\ hist0' = history
    /\ lastOp' = "chat"
    /\ toolFailed' = FALSE
    /\ attempts' = <<>>
    /\ collected_messages' = <<>>
    /\ yielded' = <<>>
    /\ UNCHANGED <<registered, returned>>
    /\ textless' = FALSE

ModelFail_recordsFailure ==
    /\ pc = "model"
    /\ turns < MaxTurns
    /\ Step([Control EXCEPT !.pc = "idle", !.outcome = Raised("model")],
            Append(history, AssistantTurn(None, <<>>)), FALSE)
    /\ runSys' = 0
    /\ UNCHANGED <<user_message, system_prompt, max_iterations, tool_calls,
                   collected_messages, registered, returned, lastOp, hist0,
                   yielded>>
    /\ toolFailed' = FALSE
    /\ attempts' = <<>>
    /\ UNCHANGED textless

ModelFail_rollsBack ==
    /\ pc = "model"
    /\ Step([Control EXCEPT !.pc = "idle", !.outcome = Raised("model")],
            SubSeq(history, 1, Len(history) - 1), FALSE)
    /\ runSys' = 0
    /\ UNCHANGED <<user_message, system_prompt, max_iterations, tool_calls,
                   collected_messages, registered, returned, lastOp, hist0,
                   yielded>>
    /\ toolFailed' = FALSE
    /\ attempts' = <<>>
    /\ UNCHANGED textless

\* the model request fails: the exception leaves chat()
ModelFail ==
    /\ pc = "model"
    /\ Step([Control EXCEPT !.pc = "idle", !.outcome = Raised("model")],
            history, FALSE)
    /\ runSys' = 0
    /\ UNCHANGED <<user_message, system_prompt, max_iterations, tool_calls,
                   collected_messages, registered, returned, lastOp, hist0,
                   yielded>>
    /\ toolFailed' = FALSE
    /\ attempts' = <<>>
    /\ UNCHANGED textless

\* the model answers: content, and tool calls or none
ModelRespond(content, tcs) ==
    /\ pc = "model"
    /\ turns + 1 + Len(tcs) <= MaxTurns
    /\ tcs # <<>> => content = None
    /\ LET h == Append(history, AssistantTurn(content, tcs))
           c == IF tcs = <<>>
                THEN [Control EXCEPT !.pc = "idle",
                        !.outcome = Returned(IF Truthy(content) THEN content ELSE "")]
                ELSE EnterToolCall(Control, tcs, 1)
           plain == tcs = <<>> /\ nreq = 1
       IN /\ Step(c, h, plain)
          /\ runSys' = IF c.pc = "idle" /\ ~plain THEN 0 ELSE runSys
    /\ tool_calls' = tcs
    /\ UNCHANGED <<user_message, system_prompt, max_iterations,
                   collected_messages, registered, returned, lastOp, hist0,
                   yielded>>
    /\ toolFailed' = FALSE
    /\ attempts' = <<>>
    /\ UNCHANGED textless

ToolReturn_dropsToolTurn(first, retry) ==
    /\ pc = "tool"
    /\ LET tc == tool_calls[tc_i]
           r == ToolResult(ExecuteToolCall(tc.function.name, first, retry))
           h == history
           c == IF r.raises
                THEN [Control EXCEPT !.pc = "idle", !.outcome = Raised("tool")]
                ELSE IF tc_i < Len(tool_calls)
                     THEN EnterToolCall(Control, tool_calls, tc_i + 1)
                     ELSE LoopHead(Control, max_iterations)
       IN /\ Step(c, IF r.raises THEN history ELSE h, FALSE)
          /\ runSys' = IF c.pc = "idle" THEN 0 ELSE runSys
    /\ toolFailed' = ProviderFailed(first, retry)
    /\ attempts' = Attempts(first, retry)
    /\ UNCHANGED <<user_message, system_prompt, max_iterations, tool_calls,
                   collected_messages, registered, returned, lastOp, hist0,
                   yielded>>
    /\ UNCHANGED textless

\* the awaited tool invocation ends; its tool turn is appended and the loop
\* goes on to the next tool call or to the head of the while loop
ToolReturn(first, retry) ==
    /\ pc = "tool"
    /\ LET tc == tool_calls[tc_i]
           r == ToolResult(ExecuteToolCall(tc.function.name, first, retry))
           h == Append(history, ToolTurn(tc, r.value))
           c == IF r.raises
                THEN [Control EXCEPT !.pc = "idle", !.outcome = Raised("tool")]
                ELSE IF tc_i < Len(tool_calls)
                     THEN EnterToolCall(Control, tool_calls, tc_i + 1)
                     ELSE LoopHead(Control, max_iterations)
       IN /\ Step(c, IF r.raises THEN history ELSE h, FALSE)
          /\ runSys' = IF c.pc = "idle" THEN 0 ELSE runSys
    /\ toolFailed' = ProviderFailed(first, retry)
    /\ attempts' = Attempts(first, retry)
    /\ UNCHANGED <<user_message, system_prompt, max_iterations, tool_calls,
                   collected_messages, registered, returned, lastOp, hist0,
                   yielded>>
    /\ UNCHANGED textless

----------------------------------------------------------------------------
(* chat_streaming(): an async generator.  Calling it runs none of its      *)
(* body; the body runs when the consumer asks for a fragment, up to the    *)
(* next yield or to the end.                                               *)

\* the observations of a run of plain chat() calls start over
RunOver(h) == runLen0' = Len(h) /\ runN' = 0 /\ runSys' = 0

\* chat_streaming(um, sp) is called: the generator object is created
StreamCreate(um, sp) ==
    /\ pc = "idle"
    /\ loads > 0
    /\ ~registered
    /\ turns + Len(StartTurns(history, sp, um)) <= MaxTurns
    /\ pc' = "gen_new"
    /\ user_message' = um
    /\ system_prompt' = sp
    /\ collected_messages' = <<>>
    /\ outcome' = NoOutcome
    /\ lastOp' = "stream"
    /\ hist0' = history
    /\ nreq' = 0
    /\ ninv' = 0
    /\ yielded' = <<>>
    /\ max_iterations' = 0
    /\ iteration' = 0
    /\ tool_calls' = <<>>
    /\ tc_i' = 0
    /\ toolFailed' = FALSE
    /\ attempts' = <<>>
    /\ RunOver(history)
    /\ UNCHANGED <<history, registered, message_count, returned, turns>>
    /\ UNCHANGED <<tools, loads, sentTools>>
    /\ textless' = FALSE
    /\ UNCHANGED <<client, model>>
    /\ UNCHANGED outsideLoop

\* the consumer asks for the first fragment: the body runs to the await of
\* the streamed model request
StreamStart ==
    /\ pc = "gen_new"
    /\ history' = history \o StartTurns(history, system_prompt, user_message)
    /\ pc' = "s_iter"
    /\ nreq' = 1
    /\ turns' = turns + (Len(history') - Len(history))
    /\ RunOver(history')
    /\ UNCHANGED <<user_message, system_prompt, max_iterations, iteration,
                   tool_calls, tc_i, collected_messages, registered,
                   message_count, returned, outcome, lastOp, hist0, ninv,
                   yielded, toolFailed, attempts>>
    /\ sentTools' = sentTools \cup {RequestTools(tools)}
    /\ UNCHANGED <<tools, loads>>
    /\ UNCHANGED <<client, model, textless>>
    /\ UNCHANGED outsideLoop

StreamChunk_yieldsAll(content) ==
    /\ pc = "s_iter"
    /\ Len(collected_messages) < MaxChunks
    /\ IF Truthy(content)
       THEN /\ collected_messages' = Append(collected_messages, content)
            /\ yielded' = Append(yielded, content)
            /\ pc' = "s_yield"
            /\ textless' = FALSE
       ELSE /\ textless' = (collected_messages = <<>>)
            /\ yielded' = Append(yielded, "")
            /\ pc' = "s_yield"
            /\ UNCHANGED collected_messages
    /\ UNCHANGED <<history, user_message, system_prompt, max_iterations,
                   iteration, tool_calls, tc_i, registered, message_count,
                   returned, outcome, lastOp, hist0, nreq, ninv, toolFailed,
                   attempts, turns, runLen0, runN, runSys>>
    /\ UNCHANGED <<tools, loads, sentTools>>
    /\ UNCHANGED <<client, model>>
    /\ UNCHANGED outsideLoop

\* the stream delivers a chunk: one with content is collected and yielded,
\* one without is textless
StreamChunk(content) ==
    /\ pc = "s_iter"
    /\ Len(collected_messages) < MaxChunks
    /\ IF Truthy(content)
       THEN /\ collected_messages' = Append(collected_messages, content)
            /\ yielded' = Append(yielded, content)
            /\ pc' = "s_yield"
            /\ textless' = FALSE
       ELSE /\ textless' = (collected_messages = <<>>)
            /\ UNCHANGED <<collected_messages, yielded, pc>>
    /\ UNCHANGED <<history, user_message, system_prompt, max_iterations,
                   iteration, tool_calls, tc_i, registered, message_count,
                   returned, outcome, lastOp, hist0, nreq, ninv, toolFailed,
                   attempts, turns, runLen0, runN, runSys>>
    /\ UNCHANGED <<tools, loads, sentTools>>
    /\ UNCHANGED <<client, model>>
    /\ UNCHANGED outsideLoop

\* the consumer asks for the next fragment
StreamNext ==
    /\ pc = "s_yield"
    /\ pc' = "s_iter"
    /\ UNCHANGED <<history, user_message, system_prompt, max_iterations,
                   iteration, tool_calls, tc_i, collected_messages,
                   registered, message_count, returned, outcome, lastOp,
                   hist0, nreq, ninv, yielded, toolFailed, attempts, turns,
                   runLen0, runN, runSys>>
    /\ UNCHANGED <<tools, loads, sentTools>>
    /\ UNCHANGED <<client, model, textless>>
    /\ UNCHANGED outsideLoop

StreamEnd_handlesToolCall ==
    /\ pc = "s_iter"
    /\ history' = history
                   \o <<[role |-> "assistant",
                         content |-> FullResponse(collected_messages)],
                        [role |-> "tool", tool_call_id |-> CallId(1),
                         content |-> ProviderResult]>>
    /\ ninv' = ninv + 1
    /\ pc' = "idle"
    /\ outcome' = Drained
    /\ turns < MaxTurns
    /\ turns' = turns + 2
    /\ RunOver(history')
    /\ UNCHANGED <<user_message, system_prompt, max_iterations, iteration,
                   tool_calls, tc_i, collected_messages, registered,
                   message_count, returned, lastOp, hist0, nreq,
                   yielded, toolFailed, attempts>>
    /\ UNCHANGED <<tools, loads, sentTools>>
    /\ UNCHANGED <<client, model, textless>>
    /\ UNCHANGED outsideLoop

\* the stream ends: the complete response is appended and the generator ends
StreamEnd ==
    /\ pc = "s_iter"
    /\ history' = Append(history,
                         [role |-> "assistant",
                          content |-> FullResponse(collected_messages)])
    /\ pc' = "idle"
    /\ outcome' = Drained
    /\ turns < MaxTurns
    /\ turns' = turns + 1
    /\ RunOver(history')
    /\ UNCHANGED <<user_message, system_prompt, max_iterations, iteration,
                   tool_calls, tc_i, collected_messages, registered,
                   message_count, returned, lastOp, hist0, nreq, ninv,
                   yielded, toolFailed, attempts>>
    /\ UNCHANGED <<tools, loads, sentTools>>
    /\ UNCHANGED <<client, model, textless>>
    /\ UNCHANGED outsideLoop

\* the streamed request, or the stream while it is read, fails
StreamFail ==
    /\ pc = "s_iter"
    /\ pc' = "idle"
    /\ outcome' = Raised("model")
    /\ UNCHANGED <<history, user_message, system_prompt, max_iterations,
                   iteration, tool_calls, tc_i, collected_messages,
                   registered, message_count, returned, lastOp, hist0, nreq,
                   ninv, yielded, toolFailed, attempts, turns, runLen0, runN,
                   runSys>>
    /\ UNCHANGED <<tools, loads, sentTools>>
    /\ textless' = FALSE
    /\ UNCHANGED <<client, model>>
    /\ UNCHANGED outsideLoop

StreamAbandon_commitsPartial ==
    /\ pc \in {"gen_new", "s_yield"}
    /\ pc' = "idle"
    /\ outcome' = Abandoned
    /\ turns < MaxTurns
    /\ turns' = turns + 1
    /\ history' = Append(history,
                         [role |-> "assistant",
                          content |-> FullResponse(collected_messages)])
    /\ RunOver(history')
    /\ UNCHANGED <<user_message, system_prompt, max_iterations, iteration,
                   tool_calls, tc_i, collected_messages, registered,
                   message_count, returned, lastOp, hist0, nreq, ninv,
                   yielded, toolFailed, attempts>>
    /\ UNCHANGED <<tools, loads, sentTools>>
    /\ textless' = FALSE
    /\ UNCHANGED <<client, model>>
    /\ UNCHANGED outsideLoop

\* the consumer drops the generator: before asking for a fragment, or
\* between two fragments.  The body has no finally: nothing more runs.
StreamAbandon ==
    /\ pc \in {"gen_new", "s_yield"}
    /\ pc' = "idle"
    /\ outcome' = Abandoned
    /\ UNCHANGED <<history, user_message, system_prompt, max_iterations,
                   iteration, tool_calls, tc_i, collected_messages,
                   registered, message_count, returned, lastOp, hist0, nreq,
                   ninv, yielded, toolFailed, attempts, turns, runLen0, runN,
                   runSys>>
    /\ UNCHANGED <<tools, loads, sentTools>>
    /\ textless' = FALSE
    /\ UNCHANGED <<client, model>>
    /\ UNCHANGED outsideLoop

----------------------------------------------------------------------------
(* __aenter__(), reset_conversation() and get_conversation_history(). *)

\* async with integration: the provider connection is opened and the tools
\* are loaded
Enter(mcp_tools) ==
    /\ pc = "idle"
    /\ ~registered
    /\ loads = 0
    /\ tools' = LoadTools(mcp_tools)
    /\ loads' = loads + 1
    /\ lastOp' = "enter"
    /\ UNCHANGED <<history, pc, user_message, system_prompt, max_iterations,
                   iteration, tool_calls, tc_i, collected_messages,
                   registered, message_count, returned, outcome, hist0, nreq,
                   ninv, yielded, toolFailed, attempts, sentTools, turns,
                   runLen0, runN, runSys>>
    /\ UNCHANGED <<client, model, textless>>
    /\ UNCHANGED outsideLoop

\* an operation that is no chat()/chat_streaming() call starts: the locals
\* of the last call are gone and its observations are dropped
CallOver ==
    /\ user_message' = None
    /\ system_prompt' = None
    /\ max_iterations' = 0
    /\ iteration' = 0
    /\ tool_calls' = <<>>
    /\ tc_i' = 0
    /\ collected_messages' = <<>>
    /\ outcome' = NoOutcome
    /\ hist0' = history
    /\ nreq' = 0
    /\ ninv' = 0
    /\ yielded' = <<>>
    /\ toolFailed' = FALSE
    /\ attempts' = <<>>
    /\ textless' = FALSE

ResetConversation_keepsSystemTurn ==
    /\ pc = "idle"
    /\ ~registered
    /\ history' = IF history # <<>> /\ history[1].role = "system"
                  THEN <<history[1]>> ELSE <<>>
    /\ lastOp' = "reset"
    /\ RunOver(history')
    /\ CallOver
    /\ UNCHANGED <<pc, registered, message_count, returned, turns>>
    /\ UNCHANGED <<tools, loads, sentTools>>
    /\ UNCHANGED <<client, model>>
    /\ UNCHANGED outsideLoop

ResetConversation_clearsTools ==
    /\ pc = "idle"
    /\ ~registered
    /\ history' = <<>>
    /\ tools' = <<>>
    /\ lastOp' = "reset"
    /\ RunOver(history')
    /\ CallOver
    /\ UNCHANGED <<pc, registered, message_count, returned, turns>>
    /\ UNCHANGED <<loads, sentTools>>
    /\ UNCHANGED <<client, model>>
    /\ UNCHANGED outsideLoop

ResetConversation_reconnects ==
    /\ pc = "idle"
    /\ ~registered
    /\ history' = <<>>
    /\ lastOp' = "reset"
    /\ RunOver(history')
    /\ CallOver
    /\ UNCHANGED <<pc, registered, message_count, returned, turns>>
    /\ UNCHANGED <<tools, loads, sentTools>>
    /\ client' = NewClient(DirectKey)
    /\ UNCHANGED model
    /\ UNCHANGED outsideLoop

\* reset_conversation()
ResetConversation ==
    /\ pc = "idle"
    /\ ~registered
    /\ history' = <<>>
    /\ lastOp' = "reset"
    /\ RunOver(history')
    /\ CallOver
    /\ UNCHANGED <<pc, registered, message_count, returned, turns>>
    /\ UNCHANGED <<tools, loads, sentTools>>
    /\ UNCHANGED <<client, model>>
    /\ UNCHANGED outsideLoop

\* list.copy(): the caller gets the turns the history holds now
GetConversationHistory ==
    /\ pc = "idle"
    /\ returned' = history
    /\ lastOp' = "get"
    /\ CallOver
    /\ turns < MaxTurns
    /\ turns' = turns + 1
    /\ UNCHANGED <<history, pc, registered, message_count,
                   runLen0, runN, runSys>>
    /\ UNCHANGED <<tools, loads, sentTools>>
    /\ UNCHANGED <<client, model>>
    /\ UNCHANGED outsideLoop

\* what a caller does to the list it got: append to it, remove from it,
\* reorder it
CallerEdits == {"append", "remove", "reorder"}
RECURSIVE Reversed(_)
Reversed(l) == IF l = <<>> THEN <<>> ELSE Append(Reversed(Tail(l)), l[1])
Edited(l, kind) ==
    IF kind = "append" THEN Append(l, UserTurn("mine"))
    ELSE IF kind = "remove" THEN SubSeq(l, 1, Len(l) - 1)
    ELSE Reversed(l)

CallerEdit_writesThrough(kind) ==
    /\ lastOp = "get"
    /\ Edited(returned, kind) # returned
    /\ returned' = Edited(returned, kind)
    /\ history' = returned'
    /\ lastOp' = "edit"
    /\ turns < MaxTurns
    /\ turns' = turns + 1
    /\ UNCHANGED <<pc, user_message, system_prompt, max_iterations,
                   iteration, tool_calls, tc_i, collected_messages,
                   registered, message_count, outcome, hist0, nreq, ninv,
                   yielded, toolFailed, attempts, tools, loads, sentTools,
                   runLen0, runN, runSys>>
    /\ UNCHANGED <<client, model, textless>>
    /\ UNCHANGED outsideLoop

\* the caller edits the list get_conversation_history() returned: it is a
\* copy, an object of its own
CallerEdit(kind) ==
    /\ lastOp = "get"
    /\ Edited(returned, kind) # returned
    /\ returned' = Edited(returned, kind)
    /\ lastOp' = "edit"
    /\ turns < MaxTurns
    /\ turns' = turns + 1
    /\ UNCHANGED <<history, pc, user_message, system_prompt, max_iterations,
                   iteration, tool_calls, tc_i, collected_messages,
                   registered, message_count, outcome, hist0, nreq, ninv,
                   yielded, toolFailed, attempts, tools, loads, sentTools,
                   runLen0, runN, runSys>>
    /\ UNCHANGED <<client, model, textless>>
    /\ UNCHANGED outsideLoop

----------------------------------------------------------------------------
(* The REST session of main.py that wraps the integration. *)

\* get_or_create_session for a new session: the integration, just entered,
\* gets its system turn and is registered
CreateSession(sp, mcp_tools) ==
    /\ pc = "idle"
    /\ ~registered
    /\ lastOp = "none"
    /\ loads = 0
    /\ tools' = LoadTools(mcp_tools)
    /\ loads' = loads + 1
    /\ UNCHANGED sentTools
    /\ UNCHANGED <<client, model>>
    /\ UNCHANGED outsideLoop
    /\ history' = Append(history,
                         SystemTurn(IF Truthy(sp) THEN sp
                                    ELSE DefaultSystemPrompt))
    /\ registered' = TRUE
    /\ message_count' = 0
    /\ lastOp' = "create_session"
    /\ RunOver(history')
    /\ turns < MaxTurns
    /\ turns' = turns + 1
    /\ CallOver
    /\ UNCHANGED <<pc, returned>>

\* reset_session: reset_conversation(), then the default system turn
ResetSession ==
    /\ pc = "idle"
    /\ registered
    /\ history' = Append(<<>>, SystemTurn(DefaultSystemPrompt))
    /\ message_count' = 0
    /\ lastOp' = "reset_session"
    /\ RunOver(history')
    /\ CallOver
    /\ turns < MaxTurns
    /\ turns' = turns + 1
    /\ UNCHANGED <<pc, registered, returned>>
    /\ UNCHANGED <<tools, loads, sentTools>>
    /\ UNCHANGED <<client, model>>
    /\ UNCHANGED outsideLoop

----------------------------------------------------------------------------

Next ==
    \/ \E um \in UserMessages, sp \in SystemPrompts,
          mi \in (-1..MaxIter) \cup {DefaultMaxIterations} : ChatStart(um, sp, mi)
    \/ ModelFail
    \/ \E content \in AssistantContents, tcs \in {<<>>} \cup ToolCallLists(MaxTurns - turns - 1) :
          ModelRespond(content, tcs)
    \/ \E first \in ProviderOutcomes, retry \in ProviderOutcomes :
          ToolReturn(first, retry)
    \/ \E um \in UserMessages, sp \in SystemPrompts : StreamCreate(um, sp)
    \/ StreamStart
    \/ \E content \in ChunkContents(Len(collected_messages) + 1) :
          StreamChunk(content)
    \/ StreamNext
    \/ StreamEnd
    \/ StreamFail
    \/ StreamAbandon
    \/ ResetConversation
    \/ GetConversationHistory
    \/ \E kind \in CallerEdits : CallerEdit(kind)
    \/ \E mcp_tools \in ProviderToolLists : Enter(mcp_tools)
    \/ \E sp \in SystemPrompts, mcp_tools \in ProviderToolLists :
          CreateSession(sp, mcp_tools)
    \/ ResetSession

Spec == Init /\ [][Next]_vars

\* the operations on an integration constructed with a key of either shape
EndpointSpec == EndpointInit /\ [][Next]_vars

----------------------------------------------------------------------------
(* The session table of main.py: the REST handlers on the sessions of two  *)
(* ids.  A handler is split at its awaits; the requests of one id are      *)
(* serialized by the caller, those of different ids interleave.  The       *)
(* integrations are the objects get_or_create_session constructed, in the  *)
(* order of their construction; a session entry refers to one by its       *)
(* position.                                                               *)

\* the steps of the awaited integration.__aenter__() that can fail
EnterFailurePoints == {"connect", "load_tools"}

\* ChatGPTMCPIntegration(...) as __init__ leaves it
NewIntegration ==
    [conversation_history |-> <<>>, tools |-> <<>>, entered |-> 0,
     exited |-> 0]

\* session_id in sessions
InSessions(s) == sessions[s] # Absent

\* the status of the chat endpoint for an exception with the message msg
ChatStatus_rateLimitFirst(msg) ==
    IF \/ Contains(msg, <<"4", "2", "9">>)
       \/ Contains(Lower(msg), RateLimit)
    THEN 429
    ELSE IF \/ Contains(msg, <<"4", "0", "1">>)
            \/ Contains(Lower(msg), InvalidApiKey)
    THEN 401
    ELSE 500

ChatStatus(msg) ==
    IF \/ Contains(msg, <<"4", "0", "1">>)
       \/ Contains(Lower(msg), InvalidApiKey)
    THEN 401
    ELSE IF \/ Contains(msg, <<"4", "2", "9">>)
            \/ Contains(Lower(msg), RateLimit)
    THEN 429
    ELSE 500

\* the status of the chat endpoint for each message of the model
ChatStatusOf ==
    [msg \in ErrorMessages \cup {DecodeMessage} |-> ChatStatus(msg)]

\* the handler of a request for s ends with the response [op, status]
Respond(s, op, status) ==
    /\ responses' = [responses EXCEPT ![s] = [op |-> op, status |-> status]]
    /\ succeeded' =
         [succeeded EXCEPT ![s] =
             IF status # 200 THEN @
             ELSE IF op = "chat" THEN @ + 1
             ELSE IF op \in {"create", "reset", "delete"} THEN 0
             ELSE @]
    /\ requests' = [requests EXCEPT ![s] = NoRequest]

\* a request for s is accepted: none is in flight for s
Accept(s) ==
    /\ requests[s] = NoRequest
    /\ accepted < MaxRequests
    /\ accepted' = accepted + 1

\* the session_id arguments of the requests for the session id s: absent,
\* empty, or s
SessionIdArguments(s) == {None, "", s}

\* the head of get_or_create_session: the id given, or str(uuid.uuid4())
\* when it is None or empty
SessionId(given, uuid) == IF Truthy(given) THEN given ELSE uuid

\* get_or_create_session for an id that is no key of sessions: the
\* integration is constructed and its __aenter__ awaited
Create(s, op, given, um, sp) ==
    /\ integrations' = Append(integrations, NewIntegration)
    /\ requests' = [requests EXCEPT ![s] =
                       [op |-> op, pc |-> "entering",
                        integration |-> Len(integrations) + 1,
                        given |-> given, session_id |-> SessionId(given, s),
                        message |-> um, system_prompt |-> sp]]
    /\ UNCHANGED <<sessions, responses, succeeded>>

\* integration.chat(request.message) starts on integration i of the
\* integrations ints: the user turn is appended and the first request issued
ChatBegins(s, i, ints, um) ==
    /\ integrations' =
         [ints EXCEPT ![i].conversation_history = @ \o StartTurns(@, None, um)]
    /\ requests' = [requests EXCEPT ![s] =
                       [op |-> "chat", pc |-> "model", integration |-> i,
                        iteration |-> 1]]
    /\ UNCHANGED <<responses, succeeded>>

\* integration.chat() returned: the endpoint counts the message and answers
ChatReturns(s) ==
    IF InSessions(s)
    THEN /\ sessions' = [sessions EXCEPT ![s].message_count = @ + 1]
         /\ Respond(s, "chat", 200)
    ELSE /\ Respond(s, "chat", 500)
         /\ UNCHANGED sessions

\* POST /api/session
PostSession(s, sp) ==
    /\ Accept(s)
    /\ ~InSessions(s)
    /\ Create(s, "create", None, None, sp)
    /\ UNCHANGED outsideTable

PostChat_alwaysCreates(s, given, um, sp) ==
    /\ Accept(s)
    /\ SessionId(given, s) = s
    /\ ~Truthy(given) => ~InSessions(s)
    /\ Create(s, "chat", given, um, sp)
    /\ UNCHANGED outsideTable

PostChat_appliesPrompt(s, given, um, sp) ==
    /\ Accept(s)
    /\ SessionId(given, s) = s
    /\ ~Truthy(given) => ~InSessions(s)
    /\ IF InSessions(SessionId(given, s))
       THEN /\ ChatBegins(s, sessions[SessionId(given, s)].integration,
                          [integrations EXCEPT
                             ![sessions[SessionId(given, s)].integration]
                                 .conversation_history =
                                   IF Truthy(sp) THEN Append(@, SystemTurn(sp))
                                   ELSE @],
                          um)
            /\ UNCHANGED sessions
       ELSE Create(s, "chat", given, um, sp)
    /\ UNCHANGED outsideTable

\* POST /api/chat with the session_id given: the request is for the id s
\* it names, or for the fresh id s that uuid4() draws
PostChat(s, given, um, sp) ==
    /\ Accept(s)
    /\ SessionId(given, s) = s
    /\ ~Truthy(given) => ~InSessions(s)
    /\ IF InSessions(SessionId(given, s))
       THEN /\ ChatBegins(s, sessions[SessionId(given, s)].integration,
                          integrations, um)
            /\ UNCHANGED sessions
       ELSE Create(s, "chat", given, um, sp)
    /\ UNCHANGED outsideTable

\* the awaited __aenter__ of get_or_create_session ends: the tools are
\* loaded, the system turn appended and the session registered
SessionEntered(s, mcp_tools) ==
    /\ requests[s].pc = "entering"
    /\ LET i == requests[s].integration
           sp == requests[s].system_prompt
           entered == [integrations EXCEPT
                         ![i].entered = @ + 1,
                         ![i].tools = LoadTools(mcp_tools),
                         ![i].conversation_history =
                             Append(@, SystemTurn(IF Truthy(sp) THEN sp
                                                  ELSE DefaultSystemPrompt))]
       IN /\ sessions' = [sessions EXCEPT
                            ![requests[s].session_id] =
                                [integration |-> i, message_count |-> 0]]
          /\ IF requests[s].op = "create"
             THEN /\ integrations' = entered
                  /\ Respond(s, "create", 200)
             ELSE ChatBegins(s, i, entered, requests[s].message)
    /\ UNCHANGED accepted
    /\ UNCHANGED outsideTable

\* the awaited __aenter__ fails with the message msg, at the connect or, the
\* connection open, at the loading of the tools: nothing is registered; the
\* chat endpoint maps the message, the create endpoint does not catch it
SessionEnterFails(s, at, msg) ==
    /\ requests[s].pc = "entering"
    /\ integrations' =
         [integrations EXCEPT ![requests[s].integration].entered =
              IF at = "load_tools" THEN @ + 1 ELSE @]
    /\ Respond(s, requests[s].op,
               IF requests[s].op = "chat" THEN ChatStatusOf[msg] ELSE 500)
    /\ UNCHANGED <<sessions, accepted>>
    /\ UNCHANGED outsideTable

\* the model answers a request of the chat() a REST chat awaits
SessionModelResponds(s, content, tcs) ==
    /\ requests[s].pc = "model"
    /\ tcs # <<>> => content = None /\ accepted < MaxRequests
    /\ accepted' = IF tcs # <<>> THEN accepted + 1 ELSE accepted
    /\ LET i == requests[s].integration
       IN /\ integrations' =
               [integrations EXCEPT ![i].conversation_history =
                    Append(@, AssistantTurn(content, tcs))]
          /\ IF tcs = <<>>
             THEN ChatReturns(s)
             ELSE IF JsonLoads(tcs[1].function.arguments).ok
                  THEN /\ requests' = [requests EXCEPT ![s] =
                                          [@ EXCEPT !.pc = "tool"]]
                       /\ UNCHANGED <<sessions, responses, succeeded>>
                  ELSE /\ Respond(s, "chat", ChatStatusOf[DecodeMessage])
                       /\ UNCHANGED sessions
    /\ UNCHANGED outsideTable

SessionModelFails_counts(s, msg) ==
    /\ requests[s].pc = "model"
    /\ Respond(s, "chat", ChatStatusOf[msg])
    /\ sessions' = [sessions EXCEPT ![s].message_count = @ + 1]
    /\ UNCHANGED <<integrations, accepted>>
    /\ UNCHANGED outsideTable

\* the model request fails with the message msg
SessionModelFails(s, msg) ==
    /\ requests[s].pc = "model"
    /\ Respond(s, "chat", ChatStatusOf[msg])
    /\ UNCHANGED <<sessions, integrations, accepted>>
    /\ UNCHANGED outsideTable

\* the awaited tool invocation ends: the tool turn is appended and the next
\* request issued, or the budget message returned
SessionToolReturns(s, first, retry) ==
    /\ requests[s].pc = "tool"
    /\ LET i == requests[s].integration
           h == integrations[i].conversation_history
           tc == h[Len(h)].tool_calls[1]
           r == ToolResult(ExecuteToolCall(tc.function.name, first, retry))
       IN /\ integrations' =
               [integrations EXCEPT ![i].conversation_history =
                    Append(@, ToolTurn(tc, r.value))]
          /\ IF requests[s].iteration < DefaultMaxIterations
             THEN /\ requests' = [requests EXCEPT ![s] =
                                     [@ EXCEPT !.pc = "model",
                                               !.iteration = @ + 1]]
                  /\ UNCHANGED <<sessions, responses, succeeded>>
             ELSE ChatReturns(s)
    /\ UNCHANGED accepted
    /\ UNCHANGED outsideTable

\* GET /api/session/{session_id}/history
GetHistory(s) ==
    /\ Accept(s)
    /\ Respond(s, "history", IF InSessions(s) THEN 200 ELSE 404)
    /\ UNCHANGED <<sessions, integrations>>
    /\ UNCHANGED outsideTable

PostReset_resetsAll(s) ==
    /\ Accept(s)
    /\ IF InSessions(s)
       THEN /\ integrations' =
                 [i \in DOMAIN integrations |->
                     [integrations[i] EXCEPT !.conversation_history =
                          <<SystemTurn(DefaultSystemPrompt)>>]]
            /\ sessions' =
                 [t \in SessionIds |->
                     IF InSessions(t)
                     THEN [sessions[t] EXCEPT !.message_count = 0]
                     ELSE sessions[t]]
            /\ Respond(s, "reset", 200)
       ELSE /\ Respond(s, "reset", 404)
            /\ UNCHANGED <<sessions, integrations>>
    /\ UNCHANGED outsideTable

\* POST /api/session/{session_id}/reset
PostReset(s) ==
    /\ Accept(s)
    /\ IF InSessions(s)
       THEN /\ integrations' =
                 [integrations EXCEPT
                    ![sessions[s].integration].conversation_history =
                        Append(<<>>, SystemTurn(DefaultSystemPrompt))]
            /\ sessions' = [sessions EXCEPT ![s].message_count = 0]
            /\ Respond(s, "reset", 200)
       ELSE /\ Respond(s, "reset", 404)
            /\ UNCHANGED <<sessions, integrations>>
    /\ UNCHANGED outsideTable

\* DELETE /api/session/{session_id}: 404, or the __aexit__ of the
\* integration is awaited
DeleteSession(s) ==
    /\ Accept(s)
    /\ IF InSessions(s)
       THEN /\ requests' = [requests EXCEPT ![s] =
                               [op |-> "delete", pc |-> "exiting",
                                integration |-> sessions[s].integration]]
            /\ UNCHANGED <<responses, succeeded>>
       ELSE Respond(s, "delete", 404)
    /\ UNCHANGED <<sessions, integrations>>
    /\ UNCHANGED outsideTable

SessionExited_keepsEntry(s) ==
    /\ requests[s].pc = "exiting"
    /\ integrations' =
         [integrations EXCEPT ![requests[s].integration].exited = @ + 1]
    /\ Respond(s, "delete", 200)
    /\ UNCHANGED <<sessions, accepted>>
    /\ UNCHANGED outsideTable

\* the awaited __aexit__ ends: the connection is released and the entry
\* deleted
SessionExited(s) ==
    /\ requests[s].pc = "exiting"
    /\ integrations' =
         [integrations EXCEPT ![requests[s].integration].exited = @ + 1]
    /\ sessions' = [sessions EXCEPT ![s] = Absent]
    /\ Respond(s, "delete", 200)
    /\ UNCHANGED accepted
    /\ UNCHANGED outsideTable

\* the awaited __aexit__ fails: the entry stays
SessionExitFails(s) ==
    /\ requests[s].pc = "exiting"
    /\ Respond(s, "delete", 500)
    /\ UNCHANGED <<sessions, integrations, accepted>>
    /\ UNCHANGED outsideTable

SessionsNext ==
    \/ \E s \in SessionIds, sp \in SystemPrompts : PostSession(s, sp)
    \/ \E s \in SessionIds, um \in UserMessages, sp \in SystemPrompts :
          \E given \in SessionIdArguments(s) : PostChat(s, given, um, sp)
    \/ \E s \in SessionIds, mcp_tools \in ProviderToolLists :
          SessionEntered(s, mcp_tools)
    \/ \E s \in SessionIds, at \in EnterFailurePoints, msg \in ErrorMessages :
          SessionEnterFails(s, at, msg)
    \/ \E s \in SessionIds, content \in AssistantContents,
          tcs \in {<<>>} \cup ToolCallLists(1) :
          SessionModelResponds(s, content, tcs)
    \/ \E s \in SessionIds, msg \in ErrorMessages : SessionModelFails(s, msg)
    \/ \E s \in SessionIds, first \in ProviderOutcomes,
          retry \in ProviderOutcomes : SessionToolReturns(s, first, retry)
    \/ \E s \in SessionIds : GetHistory(s)
    \/ \E s \in SessionIds : PostReset(s)
    \/ \E s \in SessionIds : DeleteSession(s)
    \/ \E s \in SessionIds : SessionExited(s)
    \/ \E s \in SessionIds : SessionExitFails(s)

SessionsSpec == Init /\ [][SessionsNext]_vars

----------------------------------------------------------------------------
(* The chat endpoint of main.py under clients that do not wait for each    *)
(* other: the handler is a coroutine, and while one request awaits the     *)
(* model or a tool the event loop runs the handler of the next request.    *)
(* Nothing in the handler or in chat() holds a lock on the session.  The   *)
(* sessions are created one at a time; start is the position of the user   *)
(* turn of a request and added the turns its chat() appended so far.       *)

\* the handler of the request of client k ends with the status given
Answer(k, status) ==
    /\ calls' = [calls EXCEPT ![k] = NoCall]
    /\ statuses' = [statuses EXCEPT ![k] = status]

\* integration.chat() returned to the endpoint of client k: the message is
\* counted in the entry of the session, a KeyError when the entry is gone
Counted(k) ==
    IF InSessions(calls[k].session)
    THEN /\ sessions' = [sessions EXCEPT
                           ![calls[k].session].message_count = @ + 1]
         /\ Answer(k, 200)
    ELSE /\ Answer(k, 500)
         /\ UNCHANGED sessions

\* POST /api/chat of client k for the registered session s: the lookup of
\* get_or_create_session does not await, chat() appends the user turn and
\* awaits the model
RaceChat(k, s, um) ==
    /\ calls[k] = NoCall
    /\ InSessions(s)
    /\ requests[s] = NoRequest
    /\ accepted < MaxRequests
    /\ accepted' = accepted + 1
    /\ statuses' = [statuses EXCEPT ![k] = 0]
    /\ LET i == sessions[s].integration
           h == integrations[i].conversation_history
       IN /\ integrations' =
               [integrations EXCEPT ![i].conversation_history =
                    h \o StartTurns(h, None, um)]
          /\ calls' = [calls EXCEPT ![k] =
                         [pc |-> "model", session |-> s, integration |-> i,
                          tool_calls |-> <<>>, start |-> Len(h) + 1,
                          added |-> 1]]
    /\ UNCHANGED <<sessions, requests, responses, succeeded>>
    /\ UNCHANGED outsideRace

\* the model answers the request of client k
RaceModelResponds(k, content, tcs) ==
    /\ calls[k].pc = "model"
    /\ tcs # <<>> => content = None /\ accepted < MaxRequests
    /\ accepted' = IF tcs # <<>> THEN accepted + 1 ELSE accepted
    /\ integrations' =
         [integrations EXCEPT ![calls[k].integration].conversation_history =
              Append(@, AssistantTurn(content, tcs))]
    /\ IF tcs = <<>>
       THEN Counted(k)
       ELSE IF JsonLoads(tcs[1].function.arguments).ok
            THEN /\ calls' = [calls EXCEPT ![k] =
                                [@ EXCEPT !.pc = "tool", !.tool_calls = tcs,
                                          !.added = @ + 1]]
                 /\ UNCHANGED <<sessions, statuses>>
            ELSE /\ Answer(k, ChatStatusOf[DecodeMessage])
                 /\ UNCHANGED sessions
    /\ UNCHANGED <<requests, responses, succeeded>>
    /\ UNCHANGED outsideRace

\* the model request of client k fails
RaceModelFails(k) ==
    /\ calls[k].pc = "model"
    /\ Answer(k, ChatStatusOf[ProviderErrorMessage])
    /\ UNCHANGED <<sessions, integrations, requests, responses, succeeded,
                   accepted>>
    /\ UNCHANGED outsideRace

\* the tool invocation of client k ends: the tool turn answers the tool
\* call of the response its chat() holds, and the next request is issued
RaceToolReturns(k, first, retry) ==
    /\ calls[k].pc = "tool"
    /\ LET i == calls[k].integration
           tc == calls[k].tool_calls[1]
           r == ToolResult(ExecuteToolCall(tc.function.name, first, retry))
       IN integrations' =
              [integrations EXCEPT ![i].conversation_history =
                   Append(@, ToolTurn(tc, r.value))]
    /\ calls' = [calls EXCEPT ![k] = [@ EXCEPT !.pc = "model",
                                                !.tool_calls = <<>>,
                                                !.added = @ + 1]]
    /\ UNCHANGED <<sessions, requests, responses, succeeded,
                   accepted, statuses>>
    /\ UNCHANGED outsideRace

RaceNext ==
    \/ \E s \in SessionIds, sp \in SystemPrompts : PostSession(s, sp)
    \/ \E s \in SessionIds, mcp_tools \in ProviderToolLists :
          SessionEntered(s, mcp_tools)
    \/ \E s \in SessionIds, at \in EnterFailurePoints, msg \in ErrorMessages :
          SessionEnterFails(s, at, msg)
    \/ \E k \in Clients, s \in SessionIds, um \in UserMessages :
          RaceChat(k, s, um)
    \/ \E k \in Clients, content \in AssistantContents,
          tcs \in {<<>>} \cup ToolCallLists(1) :
          RaceModelResponds(k, content, tcs)
    \/ \E k \in Clients : RaceModelFails(k)
    \/ \E k \in Clients, first \in ProviderOutcomes,
          retry \in ProviderOutcomes : RaceToolReturns(k, first, retry)

RaceSpec == Init /\ [][RaceNext]_vars

----------------------------------------------------------------------------
(* The chat and delete endpoints of main.py under those clients, for       *)
(* session ids that are created and deleted while requests are in flight:  *)
(* get_or_create_session awaits __aenter__ between its lookup and its      *)
(* registration, delete_session awaits __aexit__ between its lookup and    *)
(* its del, and nothing holds a lock on the table or on an entry.          *)

\* POST /api/chat of client k with the session_id s that is no key of
\* sessions: an integration is constructed and its __aenter__ awaited
RaceChatNew(k, s, um, sp) ==
    /\ calls[k] = NoCall
    /\ ~InSessions(s)
    /\ requests[s] = NoRequest
    /\ accepted < MaxRequests
    /\ accepted' = accepted + 1
    /\ statuses' = [statuses EXCEPT ![k] = 0]
    /\ integrations' = Append(integrations, NewIntegration)
    /\ calls' = [calls EXCEPT ![k] =
                   [pc |-> "entering", session |-> s,
                    integration |-> Len(integrations) + 1,
                    tool_calls |-> <<>>, start |-> 0, added |-> 0,
                    message |-> um, system_prompt |-> sp]]
    /\ UNCHANGED <<sessions, requests, responses, succeeded>>
    /\ UNCHANGED outsideRace

\* the awaited __aenter__ of client k ends: the system turn is appended,
\* the integration registered under the id, whatever the table holds by
\* now, and chat() appends the user turn and awaits the model
RaceEntered(k, mcp_tools) ==
    /\ calls[k].pc = "entering"
    /\ LET i == calls[k].integration
           sp == calls[k].system_prompt
           h == <<SystemTurn(IF Truthy(sp) THEN sp ELSE DefaultSystemPrompt)>>
       IN /\ integrations' =
               [integrations EXCEPT
                  ![i].entered = @ + 1,
                  ![i].tools = LoadTools(mcp_tools),
                  ![i].conversation_history =
                      h \o StartTurns(h, None, calls[k].message)]
          /\ sessions' = [sessions EXCEPT
                            ![calls[k].session] =
                                [integration |-> i, message_count |-> 0]]
          /\ calls' = [calls EXCEPT ![k] =
                         [pc |-> "model", session |-> calls[k].session,
                          integration |-> i, tool_calls |-> <<>>,
                          start |-> 2, added |-> 1]]
    /\ UNCHANGED <<requests, responses, succeeded, accepted, statuses>>
    /\ UNCHANGED outsideRace

\* the awaited __aenter__ of client k fails, at the connect or, the
\* connection open, at the loading of the tools: nothing is registered
RaceEnterFails(k, at) ==
    /\ calls[k].pc = "entering"
    /\ integrations' =
         [integrations EXCEPT ![calls[k].integration].entered =
              IF at = "load_tools" THEN @ + 1 ELSE @]
    /\ Answer(k, ChatStatusOf[ProviderErrorMessage])
    /\ UNCHANGED <<sessions, requests, responses, succeeded, accepted>>
    /\ UNCHANGED outsideRace

\* DELETE /api/session/{s} of client k: 404, or the __aexit__ of the
\* registered integration is awaited
RaceDelete(k, s) ==
    /\ calls[k] = NoCall
    /\ requests[s] = NoRequest
    /\ accepted < MaxRequests
    /\ accepted' = accepted + 1
    /\ IF InSessions(s)
       THEN /\ calls' = [calls EXCEPT ![k] =
                           [pc |-> "exiting", session |-> s,
                            integration |-> sessions[s].integration,
                            tool_calls |-> <<>>, start |-> 0, added |-> 0]]
            /\ statuses' = [statuses EXCEPT ![k] = 0]
       ELSE Answer(k, 404)
    /\ UNCHANGED <<sessions, integrations, requests, responses, succeeded>>
    /\ UNCHANGED outsideRace

\* the awaited __aexit__ of client k ends: the connection is released and
\* `del sessions[session_id]` removes the entry, a KeyError that no
\* handler catches when the entry is gone
RaceExited(k) ==
    /\ calls[k].pc = "exiting"
    /\ integrations' =
         [integrations EXCEPT ![calls[k].integration].exited = @ + 1]
    /\ IF InSessions(calls[k].session)
       THEN /\ sessions' = [sessions EXCEPT ![calls[k].session] = Absent]
            /\ Answer(k, 200)
       ELSE /\ Answer(k, 500)
            /\ UNCHANGED sessions
    /\ UNCHANGED <<requests, responses, succeeded, accepted>>
    /\ UNCHANGED outsideRace

\* the awaited __aexit__ of client k fails: the entry stays
RaceExitFails(k) ==
    /\ calls[k].pc = "exiting"
    /\ Answer(k, 500)
    /\ UNCHANGED <<sessions, integrations, requests, responses, succeeded,
                   accepted>>
    /\ UNCHANGED outsideRace

HandlersNext ==
    \/ \E k \in Clients, s \in SessionIds, um \in UserMessages :
          RaceChat(k, s, um)
    \/ \E k \in Clients, content \in AssistantContents,
          tcs \in {<<>>} \cup ToolCallLists(1) :
          RaceModelResponds(k, content, tcs)
    \/ \E k \in Clients : RaceModelFails(k)
    \/ \E k \in Clients, first \in ProviderOutcomes,
          retry \in ProviderOutcomes : RaceToolReturns(k, first, retry)
    \/ \E k \in Clients, s \in SessionIds, um \in UserMessages,
          sp \in SystemPrompts : RaceChatNew(k, s, um, sp)
    \/ \E k \in Clients, mcp_tools \in ProviderToolLists :
          RaceEntered(k, mcp_tools)
    \/ \E k \in Clients, at \in EnterFailurePoints : RaceEnterFails(k, at)
    \/ \E k \in Clients, s \in SessionIds : RaceDelete(k, s)
    \/ \E k \in Clients : RaceExited(k)
    \/ \E k \in Clients : RaceExitFails(k)

HandlersSpec == Init /\ [][HandlersNext]_vars

----------------------------------------------------------------------------
(* The query tool of the server (src/server/mcp_server.py,                 *)
(* execute_select_query, on MySQLConnection of db_connection.py).  The     *)
(* call is split where it waits for the database: connecting, running the  *)
(* query, closing.  The database is the environment.                       *)

\* the except clauses of execute_select_query: the response for an
\* exception of the class e
ErrorResponse(e) ==
    CASE e = "ValueError" -> JsonDumps("Validation Error", "validation_error")
      [] e = "ConnectionError" ->
             JsonDumps("Connection Error", "connection_error")
      [] OTHER -> JsonDumps("Execution Error", "execution_error")

\* the tool returns the text
ToolReturns(text) ==
    /\ tool_pc' = "idle"
    /\ tool_outcome' = Returned(text)
    /\ raising' = NoException

\* the with block is left with the exception e pending
LeaveWith(e) == tool_pc' = "exiting" /\ raising' = e /\ UNCHANGED tool_outcome

\* execute_select after its connection check: the connection is live
Execute == tool_pc' = "executing" /\ UNCHANGED <<raising, tool_outcome>>

\* the tool is called: the parameters are converted, the connection object
\* is built from the environment, and __enter__ starts to connect
ExecuteSelectQuery(q, params, port) ==
    /\ tool_pc = "idle"
    /\ query' = q
    /\ query_params' = IF params.given /\ params.values # <<>>
                       THEN params ELSE NoParams
    /\ connection' = "none"
    /\ opened' = 0
    /\ closed' = 0
    /\ sent' = <<>>
    /\ IF port = "3306"
       THEN /\ tool_pc' = "entering"
            /\ raising' = NoException
            /\ tool_outcome' = NoOutcome
       ELSE ToolReturns(ErrorResponse("ValueError"))
    /\ UNCHANGED outsideServer

\* connect() of __enter__ ends; with a connection, execute_select validates
\* the query and checks the connection
Entered(o) ==
    /\ tool_pc = "entering"
    /\ CASE o = "error" ->
              /\ ToolReturns(ErrorResponse("ConnectionError"))
              /\ UNCHANGED <<connection, opened>>
         [] o = "other" ->
              /\ ToolReturns(ErrorResponse("Exception"))
              /\ UNCHANGED <<connection, opened>>
         [] OTHER ->
              /\ connection' = IF o = "connected" THEN "open" ELSE "down"
              /\ opened' = IF o = "connected" THEN opened + 1 ELSE opened
              /\ IF ~IsSelect(query) THEN LeaveWith("ValueError")
                 ELSE IF o = "connected" THEN Execute
                 ELSE tool_pc' = "connecting"
                      /\ UNCHANGED <<raising, tool_outcome>>
    /\ UNCHANGED <<query, query_params, closed, sent>>
    /\ UNCHANGED outsideServer

\* connect() of execute_select ends
Connected(o) ==
    /\ tool_pc = "connecting"
    /\ CASE o = "connected" ->
              /\ connection' = "open"
              /\ opened' = opened + 1
              /\ Execute
         [] o = "not_connected" ->
              \* the cursor of a connection that is not connected
              /\ LeaveWith("Exception")
              /\ UNCHANGED <<connection, opened>>
         [] o = "error" ->
              /\ LeaveWith("ConnectionError")
              /\ UNCHANGED <<connection, opened>>
         [] OTHER ->
              /\ LeaveWith("Exception")
              /\ UNCHANGED <<connection, opened>>
    /\ UNCHANGED <<query, query_params, closed, sent>>
    /\ UNCHANGED outsideServer

\* the query was sent on the cursor and the database answered
Executed(o) ==
    /\ tool_pc = "executing"
    /\ sent' = Append(sent, [query |-> query, params |-> query_params])
    /\ LeaveWith(IF o = "rows" THEN NoException ELSE "Exception")
    /\ UNCHANGED <<query, query_params, connection, opened, closed>>
    /\ UNCHANGED outsideServer

Exited_leavesOpen ==
    /\ tool_pc = "exiting"
    /\ ToolReturns(IF raising = NoException
                   THEN JsonDumps("Query Results", "rows")
                   ELSE ErrorResponse(raising))
    /\ UNCHANGED <<query, query_params, connection, opened, closed, sent>>
    /\ UNCHANGED outsideServer

\* __exit__: disconnect() closes the connection if it is connected; then
\* the response is formatted, or the pending exception caught
Exited ==
    /\ tool_pc = "exiting"
    /\ connection' = IF connection = "open" THEN "closed" ELSE connection
    /\ closed' = IF connection = "open" THEN closed + 1 ELSE closed
    /\ ToolReturns(IF raising = NoException
                   THEN JsonDumps("Query Results", "rows")
                   ELSE ErrorResponse(raising))
    /\ UNCHANGED <<query, query_params, opened, sent>>
    /\ UNCHANGED outsideServer

ServerNext ==
    \/ \E q \in Queries, params \in ParamLists, port \in PortTexts :
          ExecuteSelectQuery(q, params, port)
    \/ \E o \in ConnectOutcomes : Entered(o)
    \/ \E o \in ConnectOutcomes : Connected(o)
    \/ \E o \in ExecuteOutcomes : Executed(o)
    \/ Exited

ServerSpec == Init /\ [][ServerNext]_vars

----------------------------------------------------------------------------
(* wait_for_mysql (src/database/init_mysql_data.py): the attempts to       *)
(* connect to the database before the data is loaded.  The call is split   *)
(* at the end of each attempt and of each sleep.                           *)

\* the head of the for loop over range(1, max_retries + 1) for the value a:
\* the next attempt starts, or the loop is over and False is returned
NextAttempt(a, m) ==
    IF a <= m
    THEN /\ attempt' = a
         /\ wait_pc' = "connecting"
         /\ wait_outcome' = NoOutcome
    ELSE /\ attempt' = attempt
         /\ wait_pc' = "done"
         /\ wait_outcome' = Returned("False")

\* wait_for_mysql(max_retries, retry_interval) is called
WaitForMysql(m, ri) ==
    /\ wait_pc = "idle"
    /\ max_retries' = m
    /\ retry_interval' = ri
    /\ NextAttempt(1, m)
    /\ UNCHANGED <<slept, unclosed>>
    /\ UNCHANGED outsideWait

\* the attempt connects, runs SELECT 1 and closes the connection
AttemptSucceeds ==
    /\ wait_pc = "connecting"
    /\ wait_pc' = "done"
    /\ wait_outcome' = Returned("True")
    /\ UNCHANGED <<max_retries, retry_interval, attempt, slept, unclosed>>
    /\ UNCHANGED outsideWait

AttemptFails_sleepsFirst(at) ==
    /\ wait_pc = "connecting"
    /\ unclosed' = IF at = "query" THEN unclosed + 1 ELSE unclosed
    /\ slept' = slept + retry_interval
    /\ IF attempt < max_retries
       THEN /\ wait_pc' = "sleeping"
            /\ UNCHANGED wait_outcome
       ELSE /\ wait_pc' = "done"
            /\ wait_outcome' = SysExit(1)
    /\ UNCHANGED <<max_retries, retry_interval, attempt>>
    /\ UNCHANGED outsideWait

\* the attempt fails with a connector error: the function sleeps, or after
\* the last attempt exits the process
AttemptFails(at) ==
    /\ wait_pc = "connecting"
    /\ unclosed' = IF at = "query" THEN unclosed + 1 ELSE unclosed
    /\ IF attempt < max_retries
       THEN /\ wait_pc' = "sleeping"
            /\ slept' = slept + retry_interval
            /\ UNCHANGED wait_outcome
       ELSE /\ wait_pc' = "done"
            /\ wait_outcome' = SysExit(1)
            /\ UNCHANGED slept
    /\ UNCHANGED <<max_retries, retry_interval, attempt>>
    /\ UNCHANGED outsideWait

\* time.sleep(retry_interval) ends
Wakes ==
    /\ wait_pc = "sleeping"
    /\ NextAttempt(attempt + 1, max_retries)
    /\ UNCHANGED <<max_retries, retry_interval, slept, unclosed>>
    /\ UNCHANGED outsideWait

WaitNext ==
    \/ \E m \in 0..MaxRetries, ri \in RetryIntervals : WaitForMysql(m, ri)
    \/ AttemptSucceeds
    \/ \E at \in FailurePoints : AttemptFails(at)
    \/ Wakes

WaitSpec == Init /\ [][WaitNext]_vars

\* an attempt ends (mysql.connector.connect returns or raises a connector
\* error) and a sleep ends
WaitFairSpec ==
    WaitSpec /\ WF_vars(AttemptSucceeds \/ \E at \in FailurePoints : AttemptFails(at))
             /\ WF_vars(Wakes)

----------------------------------------------------------------------------
(* Vocabulary of the properties. *)

HasToolCalls(t) == t.role = "assistant" /\ "tool_calls" \in DOMAIN t

\* the positions of the turns the last call appended
AddedPositions == (Len(hist0) + 1)..Len(history)

\* the history the last call started from, then the system turn if the
\* history was empty and a system prompt was supplied, then the user turn
StartedHistory ==
    IF hist0 = <<>> /\ system_prompt \notin {None, ""}
    THEN <<[role |-> "system", content |-> system_prompt],
           [role |-> "user", content |-> user_message]>>
    ELSE Append(hist0, [role |-> "user", content |-> user_message])

\* the assistant turn at p is directly followed by one tool turn per call, in
\* the order of the calls, and by no further tool turn
FollowedByToolTurns(h, p) ==
    LET tcs == h[p].tool_calls
    IN /\ p + Len(tcs) <= Len(h)
       /\ \A i \in 1..Len(tcs) :
            h[p + i].role = "tool" /\ h[p + i].tool_call_id = tcs[i].id
       /\ p + Len(tcs) + 1 <= Len(h) => h[p + Len(tcs) + 1].role # "tool"

\* the texts that report a failed tool call
ErrorTexts ==
    {"Error calling tool " \o n \o ": " \o ProviderError : n \in ToolNames}
        \cup {"Error executing tool: " \o ProviderError}

\* g is f, or f with turns appended
IsPrefix(f, g) == Len(f) <= Len(g) /\ SubSeq(g, 1, Len(f)) = f

\* the texts of a sequence, joined from the left
RECURSIVE Joined(_)
Joined(fs) ==
    IF fs = <<>> THEN ""
    ELSE Joined(SubSeq(fs, 1, Len(fs) - 1)) \o fs[Len(fs)]

ChatOver == pc = "idle" /\ lastOp = "chat"
StreamOver == pc = "idle" /\ lastOp = "stream"

----------------------------------------------------------------------------
(* C1: with max_iterations >= 1 and a model that requests a tool call in   *)
(* every response, chat() issues exactly max_iterations model requests,    *)
(* keeps iteration within 0..max_iterations and returns the                *)
(* budget-exhausted message instead of raising.                            *)
C1_BudgetExhausted ==
    /\ max_iterations >= 1 => iteration \in 0..max_iterations
    /\ ( /\ ChatOver
         /\ max_iterations >= 1
         /\ outcome # Raised("model")
         /\ \A p \in AddedPositions :
              history[p].role = "assistant" => HasToolCalls(history[p]) )
       => outcome = Returned(BudgetMessage) /\ nreq = max_iterations

(* C2: a response of chat() with k >= 1 tool calls gets exactly k tool     *)
(* turns directly after its assistant turn, in the order of the calls and  *)
(* with their ids, all of them before the next model request is issued.    *)
C2_ToolTurnsFollowCalls ==
    (lastOp = "chat" /\ pc \in {"idle", "model"})
    => \A p \in AddedPositions :
         HasToolCalls(history[p]) => FollowedByToolTurns(history, p)

(* C3: a failing tool invocation does not make chat() raise: the step in   *)
(* which the invocation fails appends the tool turn of that call, whose    *)
(* content is an error text, and chat() never ends with a failure caused   *)
(* by a tool invocation.                                                   *)
C3_ToolFailureAbsorbed ==
    /\ [](outcome.kind = "raised" => outcome.value \in {"model", "decode"})
    /\ [][(pc = "tool" /\ toolFailed')
          => /\ history' = Append(history, history'[Len(history')])
             /\ history'[Len(history')].role = "tool"
             /\ history'[Len(history')].tool_call_id = tool_calls[tc_i].id
             /\ history'[Len(history')].content \in ErrorTexts
             /\ outcome'.kind = "raised" => outcome'.value = "decode"]_vars

C3_Witness ==
    /\ ChatOver
    /\ outcome.kind = "returned"
    /\ \E p \in AddedPositions :
         history[p].role = "tool" /\ history[p].content \in ErrorTexts

(* C4: malformed JSON arguments of a tool call do not end chat(): the call *)
(* gets an error-text tool turn with its id, the other tool calls of the   *)
(* response are processed, and the failure does not reach the caller.      *)
C4_DecodeFailureAbsorbed ==
    /\ outcome # Raised("decode")
    /\ (lastOp = "chat" /\ pc \in {"idle", "model"})
       => \A p \in AddedPositions :
            HasToolCalls(history[p])
            => \A i \in 1..Len(history[p].tool_calls) :
                 ~JsonLoads(history[p].tool_calls[i].function.arguments).ok
                 => /\ p + i <= Len(history)
                    /\ history[p + i].role = "tool"
                    /\ history[p + i].tool_call_id = history[p].tool_calls[i].id
                    /\ history[p + i].content \in ErrorTexts

(* C5: after N successive chat() calls that the model answers without tool *)
(* calls, the history is 2N turns longer than before them.                 *)
C5_PlainCallsAddTwo ==
    pc = "idle" => Len(history) = runLen0 + 2 * runN

(* C5, amended: ... 2N turns longer, and one more when the history was     *)
(* empty before them and the first call supplied a system prompt.          *)
C5_PlainCallsAddTwoPlusSystem ==
    pc = "idle" => Len(history) = runLen0 + 2 * runN + runSys

C5_Witness ==
    pc = "idle" /\ runN = 2 /\ runSys = 1

(* C6: every tool turn of the history carries the id of a tool call of the *)
(* most recent assistant turn before it, and only tool turns lie between   *)
(* that assistant turn and the tool turn.                                  *)
C6_ToolTurnsAnswerLastAssistant ==
    \A p \in DOMAIN history :
        history[p].role = "tool"
        => \E q \in 1..(p - 1) :
             /\ HasToolCalls(history[q])
             /\ \A r \in (q + 1)..(p - 1) : history[r].role = "tool"
             /\ \E i \in DOMAIN history[q].tool_calls :
                  history[q].tool_calls[i].id = history[p].tool_call_id

C6_Witness ==
    \E p \in DOMAIN history :
        /\ p > 1
        /\ history[p].role = "tool"
        /\ history[p - 1].role = "tool"
        /\ history[p].tool_call_id # history[p - 1].tool_call_id

(* C7: when the consumer abandons chat_streaming() before the end, no      *)
(* assistant turn is appended: the history ends with the user turn of the  *)
(* call.                                                                   *)
C7_AbandonedEndsWithUserTurn ==
    (StreamOver /\ outcome = Abandoned) => history = StartedHistory

(* C7, amended: when the consumer abandons chat_streaming() after it       *)
(* received at least one fragment, no assistant turn is appended and the   *)
(* history ends with the user turn of the call; when it abandons before    *)
(* it asked for a fragment, the call appended nothing, no user turn        *)
(* either.  While the generator is suspended at a yield the history holds  *)
(* no assistant turn of the call.                                          *)
C7_AbandonedAppendsNoAssistant ==
    /\ (StreamOver /\ outcome = Abandoned)
       => history = IF yielded = <<>> THEN hist0 ELSE StartedHistory
    /\ (lastOp = "stream" /\ pc = "s_yield") => history = StartedHistory

C7_Witness ==
    StreamOver /\ outcome = Abandoned /\ Len(yielded) = 1

(* C8: when chat_streaming() is consumed to its end, exactly one assistant *)
(* turn is appended, its content is the fragments yielded, joined in yield *)
(* order, and it is appended only after the last fragment was yielded.     *)
C8_DrainedAppendsJoined ==
    /\ (lastOp = "stream" /\ pc \in {"s_iter", "s_yield"})
       => history = StartedHistory
    /\ (StreamOver /\ outcome = Drained)
       => history = Append(StartedHistory,
                           [role |-> "assistant", content |-> Joined(yielded)])

C8_Witness ==
    StreamOver /\ outcome = Drained /\ Len(yielded) = 2

(* C9: get_conversation_history() right after reset_conversation() returns *)
(* the empty sequence; reset_session leaves exactly one turn, a system     *)
(* turn, and message_count 0.                                              *)
C9_ResetEmpties ==
    /\ [](lastOp = "reset_session"
          => /\ Len(history) = 1
             /\ history[1].role = "system"
             /\ message_count = 0)
    /\ [][(lastOp = "reset" /\ lastOp' = "get") => returned' = <<>>]_vars

C9_Witness ==
    lastOp = "get" /\ returned = <<>> /\ sentTools # {}

(* C10: a failed model request ends chat() with the failure; the history   *)
(* keeps the user turn of the call with no assistant turn after it.        *)
C10_FailureLeavesOrphanUser ==
    (ChatOver /\ outcome = Raised("model")) => history = StartedHistory

(* C10, amended: a failed model request ends chat() with the failure and   *)
(* appends nothing for the failed request: when the first request of the   *)
(* call fails the history ends with the user turn of the call, when a      *)
(* later one fails it ends with the tool turns of the iteration before,    *)
(* and the call has appended one assistant turn per answered request.  The *)
(* next chat() appends its user turn after those turns and issues its      *)
(* first request.                                                          *)
C10_FailurePropagates ==
    /\ []((ChatOver /\ outcome = Raised("model"))
          => /\ nreq = 1 => history = StartedHistory
             /\ nreq > 1 => history[Len(history)].role = "tool"
             /\ Cardinality({p \in AddedPositions :
                               history[p].role = "assistant"}) = nreq - 1)
    /\ [][(ChatOver /\ outcome = Raised("model") /\ lastOp' = "chat"
           /\ vars' # vars)
          => /\ history' = Append(history, UserTurn(user_message'))
             /\ max_iterations' >= 1 => pc' = "model" /\ nreq' = 1]_vars

C10_Witness ==
    ChatOver /\ outcome = Raised("model") /\ nreq = 2

(* C11: _execute_tool_call never raises: when the first call_tool fails    *)
(* with something else than TypeError it is not retried and the text       *)
(* "Error calling tool <name>: ..." is returned; when it fails with        *)
(* TypeError the call is retried once, and a failure of the retry gives    *)
(* the same kind of text; on success the stringified result is returned.   *)
(* The text returned is the content of the tool turn chat() appends.       *)
C11_ExecuteNeverRaises ==
    [][pc = "tool"
       => LET name == tool_calls[tc_i].function.name
              text == history'[Len(history')].content
              error == "Error calling tool " \o name \o ": " \o ProviderError
          IN /\ outcome' # Raised("tool")
             /\ Len(history') = Len(history) + 1
             /\ history'[Len(history')].role = "tool"
             /\ Len(attempts') = IF attempts'[1] = "type_error" THEN 2 ELSE 1
             /\ attempts'[Len(attempts')] = "ok"
                  => text = Str(ProviderValue)
             /\ attempts'[Len(attempts')] # "ok" => text = error]_vars

C11_Witness ==
    /\ lastOp = "chat"
    /\ attempts = <<"type_error", "error">>
    /\ history[Len(history)].role = "tool"
    /\ history[Len(history)].content \in ErrorTexts

(* C12: when a response of the model carries no tool calls, chat() appends *)
(* the assistant turn without a tool_calls field, invokes no tool, issues  *)
(* no further request and returns the content of the response, or the      *)
(* empty string when the content is null.                                  *)
C12_PlainResponseReturns ==
    [][(pc = "model" /\ tool_calls' = <<>> /\ outcome'.kind # "raised")
       => LET t == history'[Len(history')]
          IN /\ history' = Append(history, t)
             /\ t.role = "assistant"
             /\ DOMAIN t = {"role", "content"}
             /\ pc' = "idle"
             /\ ninv' = ninv
             /\ nreq' = nreq
             /\ outcome' = Returned(IF t.content = None THEN ""
                                    ELSE t.content)]_vars

C12_Witness ==
    /\ ChatOver
    /\ outcome = Returned("")
    /\ history[Len(history)] = [role |-> "assistant", content |-> None]

(* C13: chat() and chat_streaming() append a system turn only when a       *)
(* system prompt is supplied and the history is empty, and then before the *)
(* user turn; in every reachable state the history holds at most one       *)
(* system turn, and it is the first turn.                                  *)
C13_SystemTurnOnlyFirst ==
    /\ [](\A p \in DOMAIN history : history[p].role = "system" => p = 1)
    /\ [][(/\ lastOp' \in {"chat", "stream"}
           /\ \E p \in (Len(history) + 1)..Len(history') :
                history'[p].role = "system")
          => /\ history = <<>>
             /\ system_prompt' \notin {None, ""}
             /\ history'[1] = [role |-> "system", content |-> system_prompt']
             /\ history'[2] = [role |-> "user", content |-> user_message']]_vars

C13_Witness ==
    /\ ChatOver
    /\ system_prompt = "sys"
    /\ Len(hist0) >= 3
    /\ hist0[1] = [role |-> "system", content |-> "sys"]

(* C14: the history grows monotonically except on reset: every step of     *)
(* chat(), chat_streaming() and get_conversation_history() leaves the      *)
(* history it found as a prefix of the history it leaves; only             *)
(* reset_conversation() shortens it, and it leaves it empty (reset_session *)
(* then seeds the one system turn).                                        *)
C14_HistoryGrowsExceptOnReset ==
    [][/\ lastOp' \notin {"reset", "reset_session"}
          => IsPrefix(history, history')
       /\ lastOp' = "reset" => history' = <<>>
       /\ lastOp' = "reset_session" => Len(history') = 1]_vars

C14_Witness ==
    lastOp = "reset" /\ history = <<>> /\ Len(hist0) >= 3

(* C15: get_conversation_history() returns a copy: appending to, removing  *)
(* from or reordering the returned sequence leaves the history unchanged,  *)
(* and turns appended to the history, or a reset, after the call leave the *)
(* returned sequence unchanged.                                            *)
C15_HistoryCopy ==
    [][/\ lastOp' = "get" => returned' = history /\ history' = history
       /\ lastOp' = "edit" => history' = history
       /\ lastOp' \notin {"get", "edit"} => returned' = returned]_vars

C15_Witness ==
    /\ ChatOver
    /\ Len(history) > Len(hist0)
    /\ returned # <<>>
    /\ ~IsPrefix(returned, history)

\* the tool calls of the assistant turns of h after position n, counted
RECURSIVE ToolCallsAfter(_, _)
ToolCallsAfter(h, n) ==
    IF n >= Len(h) THEN 0
    ELSE (IF HasToolCalls(h[Len(h)]) THEN Len(h[Len(h)].tool_calls) ELSE 0)
         + ToolCallsAfter(SubSeq(h, 1, Len(h) - 1), n)

\* the tool turns the last call appended
ToolTurnsAdded == {p \in AddedPositions : history[p].role = "tool"}

\* the position of the last assistant turn of the history
LastAssistant ==
    CHOOSE p \in DOMAIN history :
        /\ history[p].role = "assistant"
        /\ \A q \in (p + 1)..Len(history) : history[q].role # "assistant"

C17_ToolsLoadedOnce ==
    /\ [](/\ loads <= 1
          /\ loads = 0 => tools = <<>> /\ sentTools = {}
          /\ sentTools \subseteq {RequestTools(tools)})
    /\ [][/\ lastOp' \in {"chat", "stream", "reset", "get"}
             => tools' = tools /\ loads' = loads
          /\ loads' # loads
             => lastOp' \in {"enter", "create_session"} /\ sentTools = {}]_vars

C17_Witness ==
    /\ ChatOver
    /\ nreq = 2
    /\ hist0 # <<>>
    /\ tools # <<>>
    /\ sentTools = {RequestTools(tools)}

(* C18: chat_streaming() is a single pass without tool-call handling: once *)
(* its body runs it issues exactly one model request, whatever the model   *)
(* streams, and it invokes no tool and appends no tool turn.               *)
C18_StreamingSinglePass ==
    lastOp = "stream"
    => /\ ninv = 0
       /\ \A p \in AddedPositions : history[p].role # "tool"
       /\ nreq = IF pc = "gen_new" \/ history = hist0 THEN 0 ELSE 1
       /\ Len(history) <= Len(hist0) + 3

C18_Witness ==
    /\ StreamOver
    /\ outcome = Drained
    /\ yielded = <<>>
    /\ nreq = 1
    /\ history[Len(history)] = [role |-> "assistant", content |-> ""]


----------------------------------------------------------------------------
(* The session table.                                                      *)

\* the integration object the entry of s refers to
IntegrationOf(s) == integrations[sessions[s].integration]

\* what a client can see of the session s
SessionState(s) ==
    IF InSessions(s)
    THEN [conversation_history |-> IntegrationOf(s).conversation_history,
          tools |-> IntegrationOf(s).tools,
          message_count |-> sessions[s].message_count]
    ELSE [conversation_history |-> <<>>, tools |-> <<>>, message_count |-> 0]

\* a step of a REST request for the session id s
OperationOn(s) ==
    \/ \E sp \in SystemPrompts : PostSession(s, sp)
    \/ \E given \in SessionIdArguments(s), um \in UserMessages,
          sp \in SystemPrompts : PostChat(s, given, um, sp)
    \/ \E mcp_tools \in ProviderToolLists : SessionEntered(s, mcp_tools)
    \/ \E at \in EnterFailurePoints, msg \in ErrorMessages :
          SessionEnterFails(s, at, msg)
    \/ \E content \in AssistantContents, tcs \in {<<>>} \cup ToolCallLists(1) :
          SessionModelResponds(s, content, tcs)
    \/ \E msg \in ErrorMessages : SessionModelFails(s, msg)
    \/ \E first \in ProviderOutcomes, retry \in ProviderOutcomes :
          SessionToolReturns(s, first, retry)
    \/ GetHistory(s)
    \/ PostReset(s)
    \/ DeleteSession(s)
    \/ SessionExited(s)
    \/ SessionExitFails(s)

(* C19: a session id becomes registered only in a step of a create or a    *)
(* chat request; while it is registered its entry refers to the same       *)
(* integration, whose connection was entered once and not released,        *)
(* whatever chat, history and reset requests are served; the entry is      *)
(* removed only by the step that ends a delete request with status 200,    *)
(* and that step releases the connection of the integration, which is      *)
(* never released more than once; for an id that is not registered the     *)
(* history, reset and delete requests answer 404.                          *)
C19_SessionLifecycle ==
    /\ [](\A s \in SessionIds :
            InSessions(s) =>
                /\ IntegrationOf(s).entered = 1
                /\ IntegrationOf(s).exited = 0)
    /\ [](\A i \in DOMAIN integrations : integrations[i].exited <= 1)
    /\ [][\A s \in SessionIds :
            /\ (~InSessions(s) /\ InSessions(s)') =>
                   requests[s].op \in {"create", "chat"}
            /\ (InSessions(s) /\ InSessions(s)') =>
                   sessions'[s].integration = sessions[s].integration
            /\ (InSessions(s) /\ ~InSessions(s)') =>
                   /\ requests[s].op = "delete"
                   /\ responses'[s] = [op |-> "delete", status |-> 200]
                   /\ integrations'[sessions[s].integration].exited = 1
            /\ (/\ ~InSessions(s)
                /\ responses'[s] # responses[s]
                /\ responses'[s].op \in {"history", "reset", "delete"}) =>
                   responses'[s].status = 404
         ]_vars

\* a session was deleted, its connection released, and a later history
\* request for its id answered 404
C19_Witness ==
    \E s \in SessionIds :
        /\ ~InSessions(s)
        /\ responses[s] = [op |-> "history", status |-> 404]
        /\ \E i \in DOMAIN integrations :
              integrations[i].entered = 1 /\ integrations[i].exited = 1

(* C20: a step of a request for one session id leaves the conversation     *)
(* history, the tool list and the message_count of every other session     *)
(* unchanged, whatever requests for the other ids are in flight.           *)
C20_SessionsIndependent ==
    [][\A s \in SessionIds :
          \/ \A t \in SessionIds \ {s} : SessionState(t)' = SessionState(t)
          \/ ~OperationOn(s)
      ]_vars

\* session A was reset while a chat of session B awaited the model
C20_Witness ==
    /\ InSessions("A")
    /\ responses["A"] = [op |-> "reset", status |-> 200]
    /\ InSessions("B")
    /\ requests["B"].pc = "model"
    /\ Len(IntegrationOf("B").conversation_history) >= 2

----------------------------------------------------------------------------
(* The chat requests that no caller serializes.                            *)

\* the clients with a chat request in flight on the session s
InFlight(s) == {k \in Clients : calls[k] # NoCall /\ calls[k].session = s}

\* the turns the chat() of client k appended so far are the last turns of
\* the history of its session
TurnsTogether(k) ==
    Len(integrations[calls[k].integration].conversation_history)
        = calls[k].start + calls[k].added - 1

(* C21: a session has at most one chat request in flight, and the turns    *)
(* the chat() of a request in flight appended are contiguous at the end of *)
(* the session's history: no turn of another request lies between them.    *)
C21_OneTurnInFlight ==
    \A s \in SessionIds :
        /\ Cardinality(InFlight(s)) <= 1
        /\ \A k \in InFlight(s) : TurnsTogether(k)

----------------------------------------------------------------------------
\* no call of chat() or chat_streaming() is in flight on the integration
NoCallInFlight == pc = "idle"

\* a call of chat() ended because the arguments of a tool call did not decode
DecodeFailed(h) ==
    \E p \in 1..Len(h) :
        /\ HasToolCalls(h[p])
        /\ \E i \in 1..Len(h[p].tool_calls) :
              ~JsonLoads(h[p].tool_calls[i].function.arguments).ok

(* C22: whenever no call is in flight on the integration, every assistant  *)
(* turn of the history that carries k tool calls is directly followed by   *)
(* exactly k tool turns, one per call id in the order of the calls.        *)
C22_ToolCallsAnsweredAtRest ==
    NoCallInFlight =>
        \A p \in 1..Len(history) :
            HasToolCalls(history[p]) => FollowedByToolTurns(history, p)

----------------------------------------------------------------------------
\* the assistant turns the last call appended
AssistantsAdded == {p \in AddedPositions : history[p].role = "assistant"}

\* the last call was a chat() to which the model first gave a response with
\* one tool call and then a response without tool calls
OneToolCallThenPlain ==
    /\ ChatOver
    /\ \E p, q \in AssistantsAdded :
          /\ p < q
          /\ AssistantsAdded = {p, q}
          /\ HasToolCalls(history[p])
          /\ Len(history[p].tool_calls) = 1
          /\ ~HasToolCalls(history[q])

\* the second request of a chat() whose first response carried one tool call
\* is awaited: its input, the history, ends with the tool turn of that call
SecondRequestSeesToolTurn ==
    (lastOp = "chat" /\ pc = "model" /\ nreq = 2 /\ Len(tool_calls) = 1)
    => /\ ninv = 1
       /\ Len(history) >= 2
       /\ history[Len(history)].role = "tool"
       /\ history[Len(history)].tool_call_id = tool_calls[1].id
       /\ HasToolCalls(history[Len(history) - 1])
       /\ history[Len(history) - 1].tool_calls = tool_calls

\* the requests, the invocation and the return value of that scenario, and
\* the turns after the user turn, which is at position u
ScenarioAfterUser(u) ==
    /\ nreq = 2
    /\ ninv = 1
    /\ Len(history) = u + 3
    /\ history[u] = [role |-> "user", content |-> user_message]
    /\ HasToolCalls(history[u + 1])
    /\ history[u + 2].role = "tool"
    /\ history[u + 2].tool_call_id = history[u + 1].tool_calls[1].id
    /\ history[u + 3].role = "assistant"
    /\ outcome = Returned(IF history[u + 3].content = None THEN ""
                          ELSE history[u + 3].content)

(* C23 as stated: when the model first emits one tool call and then a      *)
(* plain answer, one chat() call issues two model requests and one tool    *)
(* invocation, the second request sees the tool turn, chat() returns the   *)
(* content of the second response, and the history gains exactly the user  *)
(* turn, the assistant turn with the tool call, the tool turn and the      *)
(* assistant turn.                                                         *)
C23_ToolThenPlainAddsFour ==
    /\ SecondRequestSeesToolTurn
    /\ OneToolCallThenPlain =>
          /\ SubSeq(history, 1, Len(hist0)) = hist0
          /\ ScenarioAfterUser(Len(hist0) + 1)

(* C23, amended: the same, the four turns being preceded by the system     *)
(* turn when a system prompt is supplied and the history was empty.        *)
C23_ToolThenPlainAddsFourPlusSystem ==
    /\ SecondRequestSeesToolTurn
    /\ OneToolCallThenPlain =>
          /\ SubSeq(history, 1, Len(StartedHistory)) = StartedHistory
          /\ ScenarioAfterUser(Len(StartedHistory))

C23_Witness ==
    /\ OneToolCallThenPlain
    /\ hist0 = <<>>
    /\ history[1].role = "system"
    /\ Len(history) = 5
    /\ outcome = Returned("a")

----------------------------------------------------------------------------
(* The query tool. *)

\* a call of the tool is over
ToolOver == tool_pc = "idle" /\ tool_outcome # NoOutcome

\* the type the returned text is tagged with
ResultType == tool_outcome.value[2].type

\* the two cases of a letter
Cases(c) ==
    CASE c = "S" -> {"S", "s"}
      [] c = "E" -> {"E", "e"}
      [] c = "L" -> {"L", "l"}
      [] c = "C" -> {"C", "c"}
      [] c = "T" -> {"T", "t"}
      [] OTHER -> {c}

\* after its leading whitespace, q starts with the letters of SELECT in
\* either case
BeginsWithSelect(q) ==
    \E n \in 0..Len(q) :
        /\ \A i \in 1..n : q[i] \in Whitespace
        /\ Len(q) >= n + 6
        /\ \A j \in 1..6 : q[n + j] \in Cases(SELECT[j])

(* C24 as stated: a query that does not start with SELECT, after trimming  *)
(* whitespace and whatever the case of its letters, is never sent to the   *)
(* database for execution, and the call returns a validation_error result. *)
C24_NonSelectRejected ==
    ~BeginsWithSelect(query) =>
        /\ sent = <<>>
        /\ tool_pc # "executing"
        /\ ToolOver => ResultType = "validation_error"

(* C24, amended: such a query is never sent to the database for            *)
(* execution, and the call returns a validation_error result unless the    *)
(* attempt to connect that precedes the validation raised: then no         *)
(* connection was opened and the result is a connection_error or an        *)
(* execution_error.                                                        *)
C24_NonSelectNeverExecuted ==
    ~BeginsWithSelect(query) =>
        /\ sent = <<>>
        /\ tool_pc # "executing"
        /\ ToolOver =>
              \/ ResultType = "validation_error"
              \/ /\ ResultType \in {"connection_error", "execution_error"}
                 /\ opened = 0
                 /\ connection = "none"

\* a query that does not start with SELECT was rejected after a connection
\* was opened for it, and closed again
C24_Witness ==
    /\ ToolOver
    /\ query = <<"D", "R", "O", "P">>
    /\ ResultType = "validation_error"
    /\ opened = 1
    /\ closed = 1
    /\ sent = <<>>

(* C25: execute_select_query never raises: every call ends by returning a  *)
(* JSON text tagged as rows, validation_error, connection_error or         *)
(* execution_error; and every connection the call opened is closed when    *)
(* the tool returns, on success, on a validation failure and on an         *)
(* execution failure.                                                      *)
C25_ToolReturnsAndCloses ==
    /\ tool_outcome.kind \in {"none", "returned"}
    /\ ToolOver =>
          /\ tool_outcome.value[1] = "json"
          /\ ResultType \in {"rows", "validation_error", "connection_error",
                             "execution_error"}
          /\ closed = opened
          /\ connection # "open"
    /\ connection = "open" <=> opened = closed + 1
    /\ opened \in {closed, closed + 1}

\* a query was sent, its execution failed, and the connection was closed
C25_Witness ==
    /\ ToolOver
    /\ ResultType = "execution_error"
    /\ Len(sent) = 1
    /\ opened = 1
    /\ closed = 1
    /\ connection = "closed"

----------------------------------------------------------------------------
(* The ids of the sessions. *)

\* the step registers the session the chat request in flight for s creates
ChatRegisters(s) ==
    /\ requests[s].op = "chat"
    /\ requests[s].pc = "entering"
    /\ requests'[s].pc = "model"

\* the step registers one session, under the id t, with the integration the
\* request for s constructed, which no entry refers to and which is entered
\* once
RegistersUnder(s, t) ==
    /\ ~InSessions(t)
    /\ sessions' = [sessions EXCEPT
                      ![t] = [integration |-> requests[s].integration,
                              message_count |-> 0]]
    /\ \A u \in SessionIds :
          InSessions(u) => sessions[u].integration # requests[s].integration
    /\ integrations[requests[s].integration] = NewIntegration
    /\ integrations'[requests[s].integration].entered = 1

\* the step accepts a chat request for the id s, which is registered: the
\* request goes to the integration of the entry, and no integration is
\* constructed or entered
ChatReuses(s) ==
    (InSessions(s) /\ requests[s] = NoRequest /\ requests'[s] # NoRequest
        /\ requests'[s].op = "chat")
    => /\ requests'[s].integration = sessions[s].integration
       /\ sessions' = sessions
       /\ Len(integrations') = Len(integrations)
       /\ \A i \in DOMAIN integrations :
             integrations'[i].entered = integrations[i].entered

(* C26 as stated: a chat request that carries a session_id that is no key  *)
(* of the table registers its session under exactly that id; a request     *)
(* without session_id registers it under a fresh id; a request with a      *)
(* registered id reuses the integration of the entry and constructs and    *)
(* enters no integration.                                                  *)
C26_SessionIdKept ==
    [][\A s \in SessionIds :
          /\ ChatRegisters(s) =>
                IF requests[s].given # None
                THEN requests[s].given \in SessionIds
                     /\ RegistersUnder(s, requests[s].given)
                ELSE \E t \in SessionIds : RegistersUnder(s, t)
          /\ ChatReuses(s)
      ]_vars

(* C26, amended: the same for a session_id that is not empty; a request    *)
(* whose session_id is absent or the empty string registers its session    *)
(* under a fresh id.                                                       *)
C26_NonEmptySessionIdKept ==
    [][\A s \in SessionIds :
          /\ ChatRegisters(s) =>
                IF requests[s].given \notin {None, ""}
                THEN requests[s].given \in SessionIds
                     /\ RegistersUnder(s, requests[s].given)
                ELSE \E t \in SessionIds : RegistersUnder(s, t)
          /\ ChatReuses(s)
      ]_vars

\* a chat request named an unknown id, its session was registered under
\* that id, and a second chat request for the id is served by its
\* integration, the only one constructed
C26_Witness ==
    /\ InSessions("B")
    /\ ~InSessions("A")
    /\ sessions["B"].message_count = 1
    /\ requests["B"].op = "chat"
    /\ requests["B"].pc = "model"
    /\ requests["B"].integration = sessions["B"].integration
    /\ Len(integrations) = 1
    /\ integrations[1].entered = 1

----------------------------------------------------------------------------
\* the key begins with sk-or-v1-
OpenRouterShaped(k) ==
    /\ Len(k) >= 9
    /\ <<k[1], k[2], k[3], k[4], k[5], k[6], k[7], k[8], k[9]>>
         = <<"s", "k", "-", "o", "r", "-", "v", "1", "-">>

(* C27: the client talks to the OpenRouter gateway exactly when its key     *)
(* starts with "sk-or-v1-", and to the direct endpoint for any other key,   *)
(* and no step of chat(), chat_streaming(), reset_conversation() or of any  *)
(* other operation changes the client or the model name.                    *)
C27_EndpointFixedAtConstruction ==
    /\ [](client.base_url =
            IF OpenRouterShaped(client.api_key) THEN OpenRouterUrl
            ELSE DirectUrl)
    /\ [][client' = client /\ model' = model]_vars

\* an integration of the gateway was used for calls and then reset
C27_Witness ==
    /\ client.base_url = OpenRouterUrl
    /\ lastOp = "reset"
    /\ Len(hist0) >= 4
    /\ sentTools # {}

----------------------------------------------------------------------------
(* wait_for_mysql. *)

\* the attempts wait_for_mysql has started
AttemptsMade == attempt

\* the attempts that have failed
FailuresSoFar ==
    IF wait_pc = "connecting" \/ wait_outcome = Returned("True")
    THEN attempt - 1 ELSE attempt

(* C28: wait_for_mysql makes at most max_retries attempts; an attempt that  *)
(* succeeds ends it with True and no further attempt; it has slept          *)
(* retry_interval once for every failed attempt but the max_retries-th,     *)
(* after which it does not sleep but exits the process with status 1; and   *)
(* every call ends.                                                         *)
C28_WaitForMysqlTerminates ==
    /\ [](/\ AttemptsMade <= max_retries
          /\ wait_pc = "sleeping" => attempt < max_retries
          /\ slept = retry_interval *
                (IF wait_outcome = SysExit(1) THEN FailuresSoFar - 1
                 ELSE FailuresSoFar)
          /\ wait_pc = "done" =>
                /\ wait_outcome \in
                      {Returned("True"), Returned("False"), SysExit(1)}
                /\ wait_outcome = Returned("False") <=> max_retries = 0
                /\ wait_outcome = SysExit(1) <=>
                      (max_retries > 0 /\ FailuresSoFar = max_retries))
    /\ [][/\ wait_pc = "done" => UNCHANGED waitVars
          /\ (wait_pc = "connecting" /\ wait_pc' = "done"
                 /\ attempt < max_retries)
              => wait_outcome' = Returned("True")
          /\ attempt' \in {attempt, attempt + 1}]_vars
    /\ (wait_pc # "idle") ~> (wait_pc = "done")

\* the last of several attempts failed: the process exits without the sleep
\* that followed the other failures
C28_Witness ==
    /\ wait_outcome = SysExit(1)
    /\ max_retries = 3
    /\ attempt = 3
    /\ retry_interval = 2
    /\ slept = 4

----------------------------------------------------------------------------
(* chat() without a budget. *)

\* the last chat() was called with no iteration to spend
NoBudget == max_iterations <= 0

(* C29: a chat() called with max_iterations <= 0 issues no model request    *)
(* and no tool invocation, returns the budget-exhausted message, and has    *)
(* appended to the history only the user turn, preceded by the system turn  *)
(* when the call supplied one and the history was empty.                    *)
C29_NoBudgetNoRequest ==
    (ChatOver /\ NoBudget)
    => /\ nreq = 0
       /\ ninv = 0
       /\ outcome = Returned(BudgetMessage)
       /\ history = StartedHistory

\* a call with a negative budget and a system prompt on an empty history
C29_Witness ==
    /\ ChatOver
    /\ max_iterations < 0
    /\ hist0 = <<>>
    /\ Len(history) = 2
    /\ history[1].role = "system"
    /\ outcome = Returned(BudgetMessage)

----------------------------------------------------------------------------
(* A streamed response without text. *)

\* the stream of the last chat_streaming() has delivered no text fragment
NoTextStreamed == lastOp = "stream" /\ collected_messages = <<>>

(* C30: when the streamed response contains no text fragment,              *)
(* chat_streaming() yields nothing and, once drained, has appended exactly *)
(* one assistant turn, whose content is the empty string and which has no  *)
(* tool_calls.                                                             *)
C30_TextlessStreamAppendsEmptyTurn ==
    NoTextStreamed
    => /\ yielded = <<>>
       /\ (pc = "idle" /\ outcome = Drained)
          => /\ history = Append(StartedHistory,
                                 [role |-> "assistant", content |-> ""])
             /\ ~HasToolCalls(history[Len(history)])

\* a drained stream that delivered chunks, none of them with text
C30_Witness ==
    /\ StreamOver
    /\ outcome = Drained
    /\ textless
    /\ yielded = <<>>
    /\ history[Len(history)] = [role |-> "assistant", content |-> ""]

----------------------------------------------------------------------------
(* The system turn of a session. *)

\* the conversation history of the registered session s
HistoryOf(s) == IntegrationOf(s).conversation_history

\* the system turns of the history h, in their order
SystemTurns(h) == SelectSeq(h, LAMBDA t : t.role = "system")

(* C31: a chat request for a registered session is served by the           *)
(* registered integration, whatever system_prompt it carries: the step     *)
(* that accepts it leaves the table unchanged and appends the user turn    *)
(* and nothing else to the history; the history of a registered session    *)
(* holds exactly one system turn, its first turn, and no step but a reset  *)
(* of the session changes that turn.                                       *)
C31_SystemPromptIgnoredOnceRegistered ==
    /\ [](\A s \in SessionIds :
            InSessions(s) =>
                /\ Len(SystemTurns(HistoryOf(s))) = 1
                /\ HistoryOf(s)[1].role = "system")
    /\ [][\A s \in SessionIds, um \in UserMessages, sp \in SystemPrompts :
            (InSessions(s) /\ PostChat(s, s, um, sp)) =>
                /\ sessions' = sessions
                /\ Len(integrations') = Len(integrations)
                /\ HistoryOf(s)' = Append(HistoryOf(s), UserTurn(um))
         ]_vars
    /\ [][\A s \in SessionIds :
            (InSessions(s) /\ InSessions(s)' /\ ~PostReset(s)) =>
                SystemTurns(HistoryOf(s))' = SystemTurns(HistoryOf(s))
         ]_vars

\* a session created with a custom system prompt has served two chats
C31_Witness ==
    \E s \in SessionIds :
        /\ InSessions(s)
        /\ HistoryOf(s)[1].content \notin {DefaultSystemPrompt}
        /\ Len(SelectSeq(HistoryOf(s), LAMBDA t : t.role = "user")) = 2
        /\ sessions[s].message_count = 1

(* C32: the step of reset_session leaves in the history of the session     *)
(* exactly the system turn the history began with, the turn the session    *)
(* was created with.                                                       *)
C32_ResetRestoresStart ==
    [][\A s \in SessionIds :
          (InSessions(s) /\ PostReset(s)) =>
              HistoryOf(s)' = <<HistoryOf(s)[1]>>
      ]_vars

----------------------------------------------------------------------------
(* The message count of a session. *)

\* the user turns of the history h
UserTurns(h) == SelectSeq(h, LAMBDA t : t.role = "user")

\* no request for the session id s is being served
AtRest(s) == requests[s] = NoRequest

(* C33: the message_count of a registered session is the number of its     *)
(* chat requests that were answered successfully since it was created or   *)
(* last reset, and, no request for it being in flight, the number of user  *)
(* turns in its history.                                                   *)
C33_MessageCountIsUserTurns ==
    \A s \in SessionIds :
        InSessions(s) =>
            /\ sessions[s].message_count = succeeded[s]
            /\ AtRest(s) =>
                  sessions[s].message_count = Len(UserTurns(HistoryOf(s)))

(* C33 as amended: the message_count of a registered session is the number *)
(* of its chat requests answered successfully since it was created or last *)
(* reset; a chat request that fails leaves it unchanged; and it is at most *)
(* the number of user turns in the history, a failed chat having left its  *)
(* user turn there.                                                        *)
C33_MessageCountIsSuccessfulChats ==
    /\ [](\A s \in SessionIds :
            InSessions(s) =>
                /\ sessions[s].message_count = succeeded[s]
                /\ sessions[s].message_count <= Len(UserTurns(HistoryOf(s))))
    /\ [][\A s \in SessionIds :
            (/\ requests[s].op = "chat"
             /\ AtRest(s)'
             /\ responses'[s].status # 200) =>
                /\ sessions' = sessions
                /\ InSessions(s) =>
                      UserTurns(HistoryOf(s))' = UserTurns(HistoryOf(s))
         ]_vars

\* of two chats of a session the first succeeded and the second failed
C33_Witness ==
    \E s \in SessionIds :
        /\ InSessions(s)
        /\ AtRest(s)
        /\ responses[s].op = "chat"
        /\ responses[s].status # 200
        /\ sessions[s].message_count = 1
        /\ Len(UserTurns(HistoryOf(s))) = 2

----------------------------------------------------------------------------
(* Requests that create and delete sessions while others are in flight. *)

\* the chat() of the request of client k is running
ChatRuns(k) == calls[k].pc \in {"model", "tool"}

\* the connection of integration i was opened and not released
ConnectionOpen(i) == integrations[i].entered > integrations[i].exited

\* integration i is the integration of an entry of the table
Registered(i) ==
    \E s \in SessionIds : InSessions(s) /\ sessions[s].integration = i

(* C34: the chat requests in flight for one session id run on one          *)
(* integration, the one registered under the id, and every integration     *)
(* created for a chat request whose connection is open is registered.      *)
C34_OneIntegrationPerSessionId ==
    \A k \in Clients :
        ChatRuns(k) =>
            /\ \A j \in Clients :
                  (ChatRuns(j) /\ calls[j].session = calls[k].session)
                      => calls[j].integration = calls[k].integration
            /\ ConnectionOpen(calls[k].integration)
                  => Registered(calls[k].integration)

(* C35: the delete request whose awaited release of the connection ends    *)
(* answers 200, and that release is the only one of the integration: of    *)
(* two delete requests for one session one passes the lookup and the other *)
(* answers 404.                                                            *)
C35_OneDeleteSucceeds ==
    [][\A k \in Clients :
          RaceExited(k) =>
              /\ statuses'[k] = 200
              /\ integrations'[calls[k].integration].exited = 1
      ]_vars

(* C36: while a delete request awaits the release of the connection of an  *)
(* integration, and after the release, the chat() of no request runs on    *)
(* that integration: a chat() that runs does so on an integration that is  *)
(* registered, with a connection that was not released.                    *)
C36_NoChatOnDeletedSession ==
    \A k \in Clients :
        ChatRuns(k) =>
            /\ \A j \in Clients :
                  calls[j].pc = "exiting"
                      => calls[j].integration # calls[k].integration
            /\ integrations[calls[k].integration].exited = 0
            /\ Registered(calls[k].integration)

----------------------------------------------------------------------------
(* The failures of a session creation. *)

(* C37: a get_or_create_session whose __aenter__ fails adds no entry to    *)
(* the table and leaves no connection open: an integration whose           *)
(* connection was opened and not released is registered.                   *)
C37_CreationAtomic ==
    /\ [][\A s \in SessionIds, at \in EnterFailurePoints,
             msg \in ErrorMessages :
            SessionEnterFails(s, at, msg) => sessions' = sessions]_vars
    /\ [](\A i \in DOMAIN integrations :
            ConnectionOpen(i) => Registered(i))

----------------------------------------------------------------------------
(* The statuses of the failed chat requests. *)

\* the except clause of the chat endpoint receives, for the chat request on
\* the session id s, an exception whose text is msg
ChatFailsWith(s, msg) ==
    /\ requests[s].op = "chat"
    /\ AtRest(s)'
    /\ \/ SessionModelFails(s, msg)
       \/ \E at \in EnterFailurePoints : SessionEnterFails(s, at, msg)

\* the status promised for the text msg, the words taken as they are written
StatusAsWritten(msg) ==
    IF Contains(msg, <<"4", "0", "1">>) \/ Contains(msg, InvalidApiKey)
    THEN 401
    ELSE IF Contains(msg, <<"4", "2", "9">>) \/ Contains(msg, RateLimit)
    THEN 429
    ELSE 500

\* some part of the text msg is the word, its letters in any case
Mentions(msg, word) ==
    \E i \in 1..(Len(msg) - Len(word) + 1) :
        Lower(SubSeq(msg, i, i + Len(word) - 1)) = word

\* the status promised for the text msg, the two words found in any letter
\* case
StatusInAnyCase(msg) ==
    IF Mentions(msg, <<"4", "0", "1">>) \/ Mentions(msg, InvalidApiKey)
    THEN 401
    ELSE IF Mentions(msg, <<"4", "2", "9">>) \/ Mentions(msg, RateLimit)
    THEN 429
    ELSE 500

\* the status promised for each failure text of the model
PromisedStatus == [msg \in ErrorMessages |-> StatusInAnyCase(msg)]

(* C38, as stated: a chat request that fails is answered 401 when the text *)
(* of the failure contains "401" or "invalid_api_key", otherwise 429 when  *)
(* it contains "429" or "rate_limit", otherwise 500, and the table of      *)
(* sessions is left as it was.                                             *)
C38_FailureStatusByText ==
    [][\A s \in SessionIds, msg \in ErrorMessages :
          ChatFailsWith(s, msg) =>
              /\ responses'[s] = [op |-> "chat", status |-> StatusAsWritten(msg)]
              /\ sessions' = sessions
      ]_vars

(* C38, amended: a chat request that fails is answered 401 when the text   *)
(* of the failure contains "401" or, in any letter case,                   *)
(* "invalid_api_key", otherwise 429 when it contains "429" or, in any      *)
(* letter case, "rate_limit", otherwise 500; every chat request that is    *)
(* not answered 200 is answered one of the three, and the step that        *)
(* answers it leaves the table of sessions as it was: a registered session *)
(* stays registered, with its message_count.                               *)
C38_FailureStatusByTextAnyCase ==
    [][\A s \in SessionIds :
          /\ \A msg \in ErrorMessages :
                ChatFailsWith(s, msg) =>
                    /\ responses'[s] =
                          [op |-> "chat", status |-> PromisedStatus[msg]]
                    /\ sessions' = sessions
          /\ (requests[s].op = "chat" /\ AtRest(s)'
                  /\ responses'[s].status # 200) =>
                    /\ responses'[s].op = "chat"
                    /\ responses'[s].status \in {401, 429, 500}
                    /\ sessions' = sessions
      ]_vars

\* a chat request on a registered session was answered 401, another 429,
\* and the user turn of a failed one is in the history, uncounted
C38_Witness ==
    \E s \in SessionIds, t \in SessionIds :
        /\ InSessions(s) /\ AtRest(s)
        /\ responses[s] = [op |-> "chat", status |-> 429]
        /\ Len(UserTurns(HistoryOf(s))) > sessions[s].message_count
        /\ responses[t] = [op |-> "chat", status |-> 401]

====
